---- MODULE Spec2Model ----
(***************************************************************************)
(* State-machine model of the streaming voice assistant                    *)
(* (src/main-streaming.js, class StreamingMaxAssistant) together with the   *)
(* collaborators whose behaviour decides its interleavings: the TTS module  *)
(* (speak / interruptSpeech / isSpeechActive and the module-level           *)
(* currentSpeechProcess), the LLM client (sendToLMStudio) and the           *)
(* activity gate (detectAudioActivity / isSilent).                          *)
(*                                                                          *)
(* JavaScript runs one macrotask at a time: a handler runs from the event   *)
(* that resumes it up to its next await of real I/O.  Each action below is  *)
(* one such run.  An await of an already finished async function (for       *)
(* example `await this.interruptCurrentProcesses()`) only yields to the     *)
(* microtask queue, which holds nothing but the continuation itself, so it  *)
(* does not end the action.                                                 *)
(***************************************************************************)
EXTENDS Integers, Sequences, FiniteSets, TLC

(***************************************************************************)
(* Bounds of the model.                                                     *)
(***************************************************************************)
\* number of audioChunk handler invocations that reach an await
MaxSegments == 3
\* number of segments whose transcription is pending at the same time
MaxPending == 1
\* number of clock advances
MaxClock == 2
\* milliseconds per clock advance
TickMs == 60000
\* number of turns of a session in the specification of the history
MaxTurns == 10
\* bytes the capture process delivers in one 'data' event
MaxChunk == 3
\* bytes the capture process delivers in all
MaxBytes == 6
\* capture processes and device look-ups that fail on their own
MaxFaults == 2
\* fragments of a text given to detectWakeWord
MaxWords == 3
\* fragments of a text given to extractInstructionAfterStop
MaxParts == 3
\* samples in the pattern of a segment given to detectAudioActivity
MaxSamples == 2
\* samples in the pattern of a segment given to isSilent
MaxPattern == 5

(***************************************************************************)
(* Strings.  JavaScript's String methods, on TLA+ strings.                  *)
(***************************************************************************)
charAt(s, i) == SubSeq(s, i, i)

\* s.substring(n): the text from 0-based position n on
substring(s, n) == SubSeq(s, n + 1, Len(s))

\* s.startsWith(w)
startsWith(s, w) == Len(w) <= Len(s) /\ SubSeq(s, 1, Len(w)) = w

\* s.endsWith(w)
endsWith(s, w) == Len(w) <= Len(s) /\ SubSeq(s, Len(s) - Len(w) + 1, Len(s)) = w

\* s.includes(w)
includes(s, w) ==
    \E i \in 1..(Len(s) - Len(w) + 1) : SubSeq(s, i, i + Len(w) - 1) = w

\* s.indexOf(w): 0-based position of the first occurrence, -1 when none
indexOf(s, w) ==
    IF includes(s, w)
    THEN (CHOOSE i \in 1..(Len(s) - Len(w) + 1) :
            /\ SubSeq(s, i, i + Len(w) - 1) = w
            /\ \A j \in 1..(i - 1) : SubSeq(s, j, j + Len(w) - 1) # w) - 1
    ELSE -1

UpperLetters == "ABCDEFGHIJKLMNOPQRSTUVWXYZ"
LowerLetters == "abcdefghijklmnopqrstuvwxyz"

lowerChar(c) ==
    IF \E i \in 1..Len(UpperLetters) : charAt(UpperLetters, i) = c
    THEN charAt(LowerLetters, CHOOSE i \in 1..Len(UpperLetters) : charAt(UpperLetters, i) = c)
    ELSE c

RECURSIVE toLowerCase(_)
toLowerCase(s) ==
    IF s = "" THEN "" ELSE lowerChar(charAt(s, 1)) \o toLowerCase(substring(s, 1))

\* the characters the regular expression class \s matches, of those used here
isSpace(c) == c = " "

\* s.replace(/^X+/, '') for a character class X given as a predicate on the
\* characters in `cls`
RECURSIVE stripLeading(_, _)
stripLeading(s, cls) ==
    IF s # "" /\ includes(cls, charAt(s, 1)) THEN stripLeading(substring(s, 1), cls) ELSE s

RECURSIVE stripTrailing(_, _)
stripTrailing(s, cls) ==
    IF s # "" /\ includes(cls, charAt(s, Len(s)))
    THEN stripTrailing(SubSeq(s, 1, Len(s) - 1), cls) ELSE s

\* s.trim()
trim(s) == stripTrailing(stripLeading(s, " "), " ")

\* s.replace(/\s+/g, ' ')
RECURSIVE collapseSpaces(_)
collapseSpaces(s) ==
    IF s = "" THEN ""
    ELSE IF isSpace(charAt(s, 1))
         THEN " " \o collapseSpaces(stripLeading(s, " "))
         ELSE charAt(s, 1) \o collapseSpaces(substring(s, 1))

(***************************************************************************)
(* Optional values: null is <<>>, a value v is <<v>>.                       *)
(***************************************************************************)
None == <<>>
Some(v) == <<v>>

(***************************************************************************)
(* Phrase detection (main-streaming.js and wake-words.js).                  *)
(***************************************************************************)
\* processAudioChunk's clean-up of the transcription
normalizeTranscript(rawText) ==
    trim(collapseSpaces(stripTrailing(stripLeading(rawText, "- "), "- ")))

exitPhrases == <<"goodbye", "bye max", "go to sleep", "that's all">>

isExitPhrase(text) ==
    LET lowerText == toLowerCase(text)
    IN  \E k \in 1..Len(exitPhrases) : includes(lowerText, exitPhrases[k])

stopWords == <<"stop", "halt", "cancel", "abort", "quit", "enough", "nevermind",
               "never mind", "forget it", "skip", "pause", "wait">>

containsStopWords(text) ==
    LET lowerText == toLowerCase(text)
    IN  \E k \in 1..Len(stopWords) : includes(lowerText, stopWords[k])

\* a loop that keeps the first stop word of the list that occurs
RECURSIVE firstListedStopWord(_, _, _, _)
firstListedStopWord(lowerText, k, stopWordEnd, foundLen) ==
    IF k > Len(stopWords) THEN <<stopWordEnd, foundLen>>
    ELSE LET index == indexOf(lowerText, stopWords[k])
             endIndex == index + Len(stopWords[k])
         IN  IF index # -1 /\ stopWordEnd = -1
             THEN firstListedStopWord(lowerText, k + 1, endIndex, Len(stopWords[k]))
             ELSE firstListedStopWord(lowerText, k + 1, stopWordEnd, foundLen)

\* the for loop of extractInstructionAfterStop from stop word k on; the pair
\* <<stopWordEnd, foundStopWord.length>> it ends with
RECURSIVE findStopWord(_, _, _, _)
findStopWord(lowerText, k, stopWordEnd, foundLen) ==
    IF k > Len(stopWords) THEN <<stopWordEnd, foundLen>>
    ELSE LET index == indexOf(lowerText, stopWords[k])
             endIndex == index + Len(stopWords[k])
         IN  IF index # -1 /\ (stopWordEnd = -1 \/ index < stopWordEnd - foundLen)
             THEN findStopWord(lowerText, k + 1, endIndex, Len(stopWords[k]))
             ELSE findStopWord(lowerText, k + 1, stopWordEnd, foundLen)

\* remainingText.replace(/^[,;]\s*/, '')
stripSeparator(s) ==
    IF s # "" /\ includes(",;", charAt(s, 1)) THEN stripLeading(substring(s, 1), " ") ELSE s

connectives == <<"and", "then", "now">>

\* remainingText.replace(/^(and|then|now)\s+/i, '')
stripConnective(s) ==
    LET low == toLowerCase(s)
        hits == {k \in 1..Len(connectives) :
                    /\ startsWith(low, connectives[k])
                    /\ Len(s) > Len(connectives[k])
                    /\ isSpace(charAt(s, Len(connectives[k]) + 1))}
    IN  IF hits = {} THEN s
        ELSE LET k == CHOOSE h \in hits : \A g \in hits : h <= g
             IN  stripLeading(substring(s, Len(connectives[k])), " ")

extractInstructionAfterStop(text) ==
    LET lowerText == toLowerCase(text)
        stopWordEnd == findStopWord(lowerText, 1, -1, 0)[1]
        remainingText == stripConnective(stripSeparator(trim(substring(text, stopWordEnd))))
    IN  IF stopWordEnd = -1 THEN None
        ELSE IF Len(remainingText) > 3 THEN Some(remainingText) ELSE None

\* the fallback configuration of loadWakeWords
wakeWords == <<"hey max", "wake up max">>
exactMatches == <<"max">>

\* a detection that takes the exact-match words as phrases
wakeOnSubstring(text) ==
    LET lowerText == trim(toLowerCase(text))
    IN  \/ \E k \in 1..Len(wakeWords) : includes(lowerText, wakeWords[k])
        \/ \E k \in 1..Len(exactMatches) : includes(lowerText, toLowerCase(exactMatches[k]))

detectWakeWord(text) ==
    LET lowerText == trim(toLowerCase(text))
        phraseMatch == \E k \in 1..Len(wakeWords) : includes(lowerText, wakeWords[k])
        exactMatch == \E k \in 1..Len(exactMatches) :
            LET lowerWord == toLowerCase(exactMatches[k])
            IN  \/ lowerText = lowerWord
                \/ includes(lowerText, " " \o lowerWord \o " ")
                \/ startsWith(lowerText, lowerWord \o " ")
                \/ endsWith(lowerText, " " \o lowerWord)
    IN  phraseMatch \/ exactMatch

(***************************************************************************)
(* Activity gate (stream-stt.js).  A segment is a pattern of 16-bit samples *)
(* repeated `repeat` times: RMS and the silent fraction of the whole buffer *)
(* are those of the pattern, and its length is 2 * Len(samples) * repeat    *)
(* bytes.                                                                   *)
(***************************************************************************)
abs(v) == IF v < 0 THEN -v ELSE v

RECURSIVE sumSquares(_)
sumSquares(samples) ==
    IF samples = <<>> THEN 0 ELSE Head(samples) * Head(samples) + sumSquares(Tail(samples))

byteLength(audioBuffer) == 2 * Len(audioBuffer.samples) * audioBuffer.repeat

\* rms > threshold, with rms = sqrt(sumSquares / samples.length), squared
detectAudioActivity(audioBuffer, threshold) ==
    IF byteLength(audioBuffer) < 1000 THEN FALSE
    ELSE sumSquares(audioBuffer.samples) > threshold * threshold * Len(audioBuffer.samples)

\* the test with `>=` in place of `>`
isSilentAtLimit(audioBuffer, silenceThreshold) ==
    LET silentSamples == Cardinality({i \in 1..Len(audioBuffer.samples) :
                                        abs(audioBuffer.samples[i]) < silenceThreshold})
    IN  10 * silentSamples >= 8 * Len(audioBuffer.samples)

\* silentSamples / samples.length > 0.8, multiplied out
isSilent(audioBuffer, silenceThreshold) ==
    LET silentSamples == Cardinality({i \in 1..Len(audioBuffer.samples) :
                                        abs(audioBuffer.samples[i]) < silenceThreshold})
    IN  10 * silentSamples > 8 * Len(audioBuffer.samples)

\* the segments the audio source delivers in this model: 2 s of speech, 2 s of
\* silence, a burst in 80% silence, a burst in more than 80% silence, and a
\* buffer shorter than 1000 bytes
Segments ==
    { [samples |-> <<1000, -1000, 1000, -1000, 1000>>, repeat |-> 6400],
      [samples |-> <<0, 0, 0, 0, 0>>, repeat |-> 6400],
      [samples |-> <<3000, 0, 0, 0, 0>>, repeat |-> 6400],
      [samples |-> <<3000, 0, 0, 0, 0, 0>>, repeat |-> 5333],
      [samples |-> <<1000, -1000, 1000, -1000, 1000>>, repeat |-> 99] }

\* the test without its isQuiet half
noActivityOnly(audioBuffer) ==
    ~detectAudioActivity(audioBuffer, 200)

\* processAudioChunk's test `!hasActivity || isQuiet`
noSpeech(audioBuffer) ==
    LET hasActivity == detectAudioActivity(audioBuffer, 200)
        isQuiet == isSilent(audioBuffer, 100)
    IN  ~hasActivity \/ isQuiet

\* the outcome of that test for each segment, computed once
Gate == [audioBuffer \in Segments |-> noSpeech(audioBuffer)]

(***************************************************************************)
(* System commands (system-processor.js).  processWithFunctions hands a     *)
(* message with a system keyword to processSystemCommands.  Its first four  *)
(* branches await a child process (execAsync, without a timeout) and ask    *)
(* for no confirmation; they are the branches the texts of this model       *)
(* reach.  For any other message processWithFunctions only computes.        *)
(***************************************************************************)
systemKeywords ==
    << "run ", "execute ", "start ", "launch ", "open ",
       "kill ", "terminate ", "stop ", "end process",
       "running processes", "list processes", "show processes",
       "active window", "current window", "screen",
       "system info", "computer info", "pc info",
       "list files", "show files", "directory", "folder contents",
       "mouse position", "cursor position", "mouse location",
       "screen resolution", "screen size", "display resolution",
       "move mouse", "move cursor", "click", "mouse click",
       "scroll", "type ", "write ", "press ", "send keys", "keyboard shortcut",
       "shutdown", "shut down", "turn off", "power off",
       "restart", "reboot", "reset computer",
       "run as admin", "administrator", "elevated", "admin rights",
       "lock computer", "lock pc", "lock screen", "lock workstation",
       "unlock", "unlock pc", "unlock computer", "open computer" >>

containsSystemCommands(message) ==
    LET lowerMessage == toLowerCase(message)
    IN  \E k \in 1..Len(systemKeywords) : includes(lowerMessage, systemKeywords[k])

\* the phrases of processSystemCommands' branches for the process list, the
\* active window, the system information and a directory listing
execPhrases ==
    << "running processes", "list processes", "what processes", "show processes",
       "active window", "current window", "what window", "screen",
       "system info", "computer info", "system details", "pc info",
       "list files", "show files", "directory", "folder contents" >>

\* processSystemCommands(message) awaits a child process
processSystemCommands(message) ==
    LET lowerMessage == toLowerCase(message)
    IN  \E k \in 1..Len(execPhrases) : includes(lowerMessage, execPhrases[k])

\* processWithFunctions(message) awaits real I/O before it returns
processWithFunctions(message) ==
    containsSystemCommands(message) /\ processSystemCommands(message)

(***************************************************************************)
(* What the transcriber can return for a segment in this model.             *)
(***************************************************************************)
RawTexts == { "hey max", "system info", "Stop", "stop, system info", "goodbye",
              "goodbye, stop and sing", " - x", "" }

\* How transcribeBuffer settles.  It resolves with a text, or it rejects: the
\* whisper process could not be run ('error'), it closed with a non-zero code,
\* or it was killed after 10 s.  `output` is what the process had printed.
TranscribeFailures ==
    { [kind |-> "error", output |-> ""],
      [kind |-> "exit", output |-> "hey max"],
      [kind |-> "timeout", output |-> "hey max"] }

TranscribeOutcomes ==
    {[kind |-> "text", output |-> rawText] : rawText \in RawTexts} \cup TranscribeFailures

\* a transcribeBufferSafe that returns what a failed process had printed
transcribePartialOutput(outcome) == outcome.output

\* transcribeBufferSafe: the text, or '' when transcribeBuffer rejected
transcribeBufferSafe(outcome) ==
    IF outcome.kind = "text" THEN outcome.output ELSE ""

\* the classification of each transcription, computed once
Heard == [rawText \in RawTexts |->
            LET text == normalizeTranscript(rawText)
            IN  [ text |-> text,
                  exit |-> isExitPhrase(text),
                  stop |-> containsStopWords(text),
                  instruction |-> extractInstructionAfterStop(text),
                  wake |-> detectWakeWord(text),
                  \* the turn for the text, and the turn for the instruction
                  \* after the stop word, wait for a system command
                  awaits |-> processWithFunctions(text),
                  instructionAwaits |->
                      LET instruction == extractInstructionAfterStop(text)
                      IN  instruction # None /\ processWithFunctions(instruction[1]) ]]

(***************************************************************************)
(* The LLM client (llm.js).  sendToLMStudio(message, conversationHistory,   *)
(* baseUrl) catches every error and returns a string; it takes no abort     *)
(* signal.  main-streaming.js passes { signal } as the third argument, so   *)
(* baseUrl is that object and the request URL is                            *)
(* "[object Object]/v1/chat/completions", which fetch rejects while it      *)
(* builds the request: unless processWithFunctions awaits a system command  *)
(* the whole call settles within the macrotask that started it.             *)
(***************************************************************************)
DefaultBaseUrl == "http://127.0.0.1:1234"
SignalOptions == "[object Object]"
ModelReply == "<reply>"
UnexpectedFormat == "I received an unexpected response format."
ConnectFailure == "Sorry, I'm having trouble connecting to my brain right now."

\* the outcomes of one call: [kind |-> "result", value |-> string]; the
\* function never throws, whether or not the caller's controller was aborted
sendToLMStudio(baseUrl, signalAborted) ==
    IF baseUrl = DefaultBaseUrl
    THEN { [kind |-> "result", value |-> ModelReply],
           [kind |-> "result", value |-> UnexpectedFormat],
           [kind |-> "result", value |-> ConnectFailure] }
    ELSE { [kind |-> "result", value |-> ConnectFailure] }

\* what sendToLMStudioWithInterruption resolves with: None is null
llmResponse(outcome) ==
    CASE outcome.kind = "result" -> Some(outcome.value)
      [] outcome.kind = "AbortError" -> None
      [] OTHER -> Some("Sorry, I encountered an error while thinking.")

\* trimConversationHistory(history, maxPairs = 8)
maxPairs == 8

\* slice(0, maxPairs * 2) in place of slice(-(maxPairs * 2))
trimKeepingOldest(history) ==
    IF Len(history) <= maxPairs * 2 THEN history
    ELSE SubSeq(history, 1, maxPairs * 2)

trimConversationHistory(history) ==
    IF Len(history) <= maxPairs * 2 THEN history
    ELSE SubSeq(history, Len(history) - maxPairs * 2 + 1, Len(history))

conversationTimeout == 60000

(***************************************************************************)
(* The audio source (AudioStreamer).  The constructor computes chunkSize    *)
(* from its options; handleAudioChunk appends the bytes of a 'data' event   *)
(* to audioBuffer and slices complete segments off its front.               *)
(***************************************************************************)
\* options.x || default
orDefault(value, default) == IF value = 0 THEN default ELSE value

\* new AudioStreamer(options)
AudioStreamer(options) ==
    LET sampleRate == orDefault(options.sampleRate, 16000)
        channels == orDefault(options.channels, 1)
        chunkDuration == orDefault(options.chunkDuration, 2000)
    IN  [ ffmpegProcess |-> 0,
          isStreaming |-> FALSE,
          audioBuffer |-> <<>>,
          chunkSize |-> (sampleRate * channels * 2 * chunkDuration) \div 1000 ]

\* the options of the assistant's constructor
AssistantOptions == [sampleRate |-> 16000, channels |-> 1, chunkDuration |-> 2000]

\* options with a segment of 2, 3 and 1 bytes
SmallOptions ==
    { [sampleRate |-> 1000, channels |-> 1, chunkDuration |-> 1],
      [sampleRate |-> 500, channels |-> 1, chunkDuration |-> 3],
      [sampleRate |-> 750, channels |-> 1, chunkDuration |-> 1] }

\* handleAudioChunk's loop: [audioBuffer, emitted] once no complete segment is left
RECURSIVE processCompleteChunks(_, _, _)
processCompleteChunks(buffer, chunkSize, out) ==
    IF Len(buffer) >= chunkSize
    THEN processCompleteChunks(SubSeq(buffer, chunkSize + 1, Len(buffer)), chunkSize,
                               Append(out, SubSeq(buffer, 1, chunkSize)))
    ELSE [audioBuffer |-> buffer, emitted |-> out]

\* handleAudioChunk with `if` in place of `while`
handleWithoutLoop(buffer, chunkSize, chunk) ==
    LET all == buffer \o chunk
    IN  IF Len(all) >= chunkSize
        THEN [ audioBuffer |-> SubSeq(all, chunkSize + 1, Len(all)),
               emitted |-> <<SubSeq(all, 1, chunkSize)>> ]
        ELSE [audioBuffer |-> all, emitted |-> <<>>]

\* handleAudioChunk(chunk) on a streamer whose buffer is `buffer`
handleAudioChunk(buffer, chunkSize, chunk) ==
    processCompleteChunks(buffer \o chunk, chunkSize, <<>>)

\* the byte values of this model, and the payloads of a 'data' event over them
Bytes == {0, 1}
ChunksOf(bytes) == UNION {[1..n -> bytes] : n \in 1..MaxChunk}

(***************************************************************************)
(* State.                                                                   *)
(***************************************************************************)
VARIABLES
    now,                    \* Date.now()
    nextSeg,                \* id of the next audioChunk handler invocation
    tasks,                  \* suspended handler invocations: id -> continuation
    isInConversation,
    conversationHistory,
    lastActivity,
    isProcessingLLM,
    isSpeaking,
    currentLLMProcess,      \* 0 (null) or the id of the call whose AbortController it is
    aborted,                \* calls whose AbortController.abort() was called
    currentSpeechProcess,   \* tts.js module variable: NoProc (null) or a process id
    speech                  \* TTS child processes whose close event is pending

VARIABLES
    audioStreamer,          \* this.audioStreamer: its fields
    ffmpeg,                 \* capture child processes whose close event is pending: id -> state
    emitted,                \* 'audioChunk' events emitted since audioBuffer was last emptied
    received,               \* bytes of the 'data' events since audioBuffer was last emptied
    restarts,               \* restartStreaming invocations in progress: id -> the timer or call awaited
    faults                  \* capture processes and device look-ups that have failed on their own

assistantVars == <<now, nextSeg, tasks, isInConversation, conversationHistory, lastActivity,
                   isProcessingLLM, isSpeaking, currentLLMProcess, aborted,
                   currentSpeechProcess, speech>>

captureVars == <<audioStreamer, ffmpeg, emitted, received, restarts, faults>>

VARIABLES
    argument,               \* the argument of a call of one of the exported functions
    returned,               \* None while the call runs, then Some(the value it returned)
    stt                     \* None, or the transcribeBuffer call in progress: its promise,
                            \* its whisper process and its timer

callVars == <<argument, returned, stt>>

vars == <<now, nextSeg, tasks, isInConversation, conversationHistory, lastActivity,
          isProcessingLLM, isSpeaking, currentLLMProcess, aborted,
          currentSpeechProcess, speech, audioStreamer, ffmpeg, emitted, received,
          restarts, faults, argument, returned, stt>>

\* A handler invocation is suspended at one of these awaits:
\*   "transcribe"    await this.stt.transcribeBufferSafe(audioBuffer)
\*   "think"         await llmPromise (sendToLMStudioWithInterruption), while
\*                   the system command of the turn runs
\*   "speakReply"    await this.speakWithInterruption(response)
\*   "speakGoodbye"  await speak('Goodbye! ...')
\*   "speakSleep"    await speak('I'm going back to sleep now. ...')
\*   "speakReady"    await speak('Ready.')
\* text: the handler's `text` ("" where it has none); proc: the speech
\* process awaited.
Suspended(pc, text, proc) == [pc |-> pc, text |-> text, proc |-> proc]

NoProc == <<0, "none">>
ProcId(t, utterance) == <<t, utterance>>

suspend(t, k) == [i \in DOMAIN tasks \cup {t} |-> IF i = t THEN k ELSE tasks[i]]
finish(t) == [i \in DOMAIN tasks \ {t} |-> tasks[i]]

\* spawn(...) in speakWithPyttsx3 / speakWithSAPI: a running child process
\* whose speak promise is pending and whose interrupt monitor runs
spawned(procs, id) == procs \cup {[id |-> id, st |-> "running", wasInterrupted |-> FALSE]}

\* process.kill('SIGTERM') on the process `id`
killed(procs, id) == {IF p.id = id THEN [p EXCEPT !.st = "killed"] ELSE p : p \in procs}

\* the audio source as the assistant's constructor leaves it
InitCapture ==
    /\ audioStreamer = AudioStreamer(AssistantOptions)
    /\ ffmpeg = <<>>
    /\ emitted = <<>>
    /\ received = <<>>
    /\ restarts = <<>>
    /\ faults = 0

\* the assistant as its constructor leaves it
InitAssistant ==
    /\ now = 0
    /\ nextSeg = 1
    /\ tasks = <<>>
    /\ isInConversation = FALSE
    /\ conversationHistory = <<>>
    /\ lastActivity = 0
    /\ isProcessingLLM = FALSE
    /\ isSpeaking = FALSE
    /\ currentLLMProcess = 0
    /\ aborted = {}
    /\ currentSpeechProcess = NoProc
    /\ speech = {}

\* no call of an exported function is in progress
InitCall ==
    /\ argument = None
    /\ returned = None
    /\ stt = None

Init == InitAssistant /\ InitCapture /\ InitCall

(***************************************************************************)
(* tts.js                                                                   *)
(***************************************************************************)
isSpeechActive == currentSpeechProcess # NoProc

\* interruptSpeech(): kills the process the module variable refers to, if any,
\* and clears the variable.  The speech processes after the call.
interruptSpeech ==
    IF currentSpeechProcess # NoProc THEN killed(speech, currentSpeechProcess) ELSE speech

\* interruptCurrentProcesses() without its final `this.isSpeaking = false`
interruptLeavingSpeakingFlag ==
    [ aborted |-> IF isProcessingLLM /\ currentLLMProcess # 0
                  THEN aborted \cup {currentLLMProcess} ELSE aborted,
      speech |-> IF isSpeaking \/ isSpeechActive THEN interruptSpeech ELSE speech,
      currentSpeechProcess |-> NoProc,
      isProcessingLLM |-> FALSE,
      isSpeaking |-> isSpeaking,
      currentLLMProcess |-> 0 ]

\* interruptCurrentProcesses() with its abort() outside the test of line 325
interruptAbortingAlways ==
    [ aborted |-> aborted \cup {currentLLMProcess},
      speech |-> IF isSpeaking \/ isSpeechActive THEN interruptSpeech ELSE speech,
      currentSpeechProcess |-> NoProc,
      isProcessingLLM |-> FALSE,
      isSpeaking |-> FALSE,
      currentLLMProcess |-> 0 ]

(***************************************************************************)
(* interruptCurrentProcesses(): the values it leaves.  After it the tts    *)
(* module variable is null: interruptSpeech() clears it when it was set,    *)
(* and the call is skipped only when it was null already (line 346 writes   *)
(* a field of the assistant that nothing reads).                            *)
(***************************************************************************)
interruptCurrentProcesses ==
    [ aborted |-> IF isProcessingLLM /\ currentLLMProcess # 0
                  THEN aborted \cup {currentLLMProcess} ELSE aborted,
      speech |-> IF isSpeaking \/ isSpeechActive THEN interruptSpeech ELSE speech,
      currentSpeechProcess |-> NoProc,
      isProcessingLLM |-> FALSE,
      isSpeaking |-> FALSE,
      currentLLMProcess |-> 0 ]

(***************************************************************************)
(* Time passes.                                                             *)
(***************************************************************************)
Tick ==
    /\ now < MaxClock * TickMs
    /\ now' = now + TickMs
    /\ UNCHANGED <<nextSeg, tasks, isInConversation, conversationHistory, lastActivity,
                   isProcessingLLM, isSpeaking, currentLLMProcess, aborted,
                   currentSpeechProcess, speech>>

(***************************************************************************)
(* processAudioChunk(audioBuffer), up to its first await.                   *)
(***************************************************************************)
\* the timeout test with `>=` in place of `>`
idleTimedOutAtLimit ==
    /\ isInConversation
    /\ ~isProcessingLLM
    /\ ~isSpeaking
    /\ now - lastActivity >= conversationTimeout

\* the timeout test of the silent branch
idleTimedOut ==
    /\ isInConversation
    /\ ~isProcessingLLM
    /\ ~isSpeaking
    /\ now - lastActivity > conversationTimeout

\* a segment without speech: nothing, or exitConversationMode() up to its
\* await of speak
SilentChunk(audioBuffer, maxSeg) ==
    /\ Gate[audioBuffer]
    /\ IF idleTimedOut
       THEN /\ nextSeg <= maxSeg
            /\ isInConversation' = FALSE
            /\ conversationHistory' = <<>>
            /\ speech' = spawned(speech, ProcId(nextSeg, "sleep"))
            /\ currentSpeechProcess' = ProcId(nextSeg, "sleep")
            /\ tasks' = suspend(nextSeg, Suspended("speakSleep", "", ProcId(nextSeg, "sleep")))
            /\ nextSeg' = nextSeg + 1
            /\ UNCHANGED <<now, lastActivity, isProcessingLLM, isSpeaking,
                           currentLLMProcess, aborted>>
       ELSE UNCHANGED vars

\* a segment with speech: the handler awaits the transcription
SpeechChunk(audioBuffer, maxSeg) ==
    /\ ~Gate[audioBuffer]
    /\ nextSeg <= maxSeg
    /\ Cardinality({t \in DOMAIN tasks : tasks[t].pc = "transcribe"}) < MaxPending
    /\ tasks' = suspend(nextSeg, Suspended("transcribe", "", NoProc))
    /\ nextSeg' = nextSeg + 1
    /\ UNCHANGED <<now, isInConversation, conversationHistory, lastActivity,
                   isProcessingLLM, isSpeaking, currentLLMProcess, aborted,
                   currentSpeechProcess, speech>>

processAudioChunk(audioBuffer, maxSeg) ==
    SilentChunk(audioBuffer, maxSeg) \/ SpeechChunk(audioBuffer, maxSeg)

(***************************************************************************)
(* The transcription of task t's segment arrives: the rest of               *)
(* processAudioChunk, with handleWakeWordDetection / enterConversationMode  *)
(* or handleConversationInput / processConversation up to the next await.   *)
(***************************************************************************)
\* the skip placed after handleConversationInput's lastActivity refresh
skipCountingAsActivity(t) ==
    /\ tasks' = finish(t)
    /\ lastActivity' = IF isInConversation THEN now ELSE lastActivity
    /\ UNCHANGED <<now, nextSeg, isInConversation, conversationHistory,
                   isProcessingLLM, isSpeaking, currentLLMProcess, aborted,
                   currentSpeechProcess, speech>>

\* text.length < 2: skipped
SkipShort(t) ==
    /\ tasks' = finish(t)
    /\ UNCHANGED <<now, nextSeg, isInConversation, conversationHistory, lastActivity,
                   isProcessingLLM, isSpeaking, currentLLMProcess, aborted,
                   currentSpeechProcess, speech>>

\* handleWakeWordDetection with an enterConversationMode that leaves lastActivity
wakeWithoutRefresh(t, h) ==
    IF h.wake
    THEN /\ isInConversation' = TRUE
         /\ conversationHistory' = <<>>
         /\ speech' = spawned(speech, ProcId(t, "ready"))
         /\ currentSpeechProcess' = ProcId(t, "ready")
         /\ tasks' = suspend(t, Suspended("speakReady", "", ProcId(t, "ready")))
         /\ UNCHANGED <<now, nextSeg, lastActivity, isProcessingLLM, isSpeaking,
                        currentLLMProcess, aborted>>
    ELSE /\ tasks' = finish(t)
         /\ UNCHANGED <<now, nextSeg, isInConversation, conversationHistory, lastActivity,
                        isProcessingLLM, isSpeaking, currentLLMProcess, aborted,
                        currentSpeechProcess, speech>>

handleWakeWordDetection(t, h) ==
    IF h.wake
    THEN \* enterConversationMode
         /\ isInConversation' = TRUE
         /\ lastActivity' = now
         /\ conversationHistory' = <<>>
         /\ speech' = spawned(speech, ProcId(t, "ready"))
         /\ currentSpeechProcess' = ProcId(t, "ready")
         /\ tasks' = suspend(t, Suspended("speakReady", "", ProcId(t, "ready")))
         /\ UNCHANGED <<now, nextSeg, isProcessingLLM, isSpeaking, currentLLMProcess, aborted>>
    ELSE /\ tasks' = finish(t)
         /\ UNCHANGED <<now, nextSeg, isInConversation, conversationHistory, lastActivity,
                        isProcessingLLM, isSpeaking, currentLLMProcess, aborted,
                        currentSpeechProcess, speech>>

\* a reply recorded without the text it answers
replyRecordedAlone(t, text, outcome, pre) ==
    /\ currentLLMProcess' = 0
    /\ isProcessingLLM' = FALSE
    \* the call's AbortController is dropped with the call
    /\ aborted' = pre.aborted \ {t}
    /\ LET response == llmResponse(outcome)
       IN  IF response = None
           THEN /\ tasks' = finish(t)
                /\ lastActivity' = pre.lastActivity
                /\ isSpeaking' = pre.isSpeaking
                /\ speech' = pre.speech
                /\ currentSpeechProcess' = pre.currentSpeechProcess
                /\ UNCHANGED conversationHistory
           ELSE /\ lastActivity' = now
                /\ conversationHistory' = trimConversationHistory(
                       conversationHistory \o
                       << [role |-> "assistant", content |-> response[1]] >>)
                /\ isSpeaking' = TRUE
                /\ speech' = spawned(pre.speech, ProcId(t, "reply"))
                /\ currentSpeechProcess' = ProcId(t, "reply")
                /\ tasks' = suspend(t, Suspended("speakReply", "", ProcId(t, "reply")))
    /\ UNCHANGED <<now, nextSeg, isInConversation>>

\* processConversation from the settling of sendToLMStudioWithInterruption
\* to `await this.speakWithInterruption(response)`.  `pre` holds the values
\* the earlier part of the macrotask left for the variables written here.
replyArrives(t, text, outcome, pre) ==
    /\ currentLLMProcess' = 0
    /\ isProcessingLLM' = FALSE
    \* the call's AbortController is dropped with the call
    /\ aborted' = pre.aborted \ {t}
    /\ LET response == llmResponse(outcome)
       IN  IF response = None
           THEN /\ tasks' = finish(t)
                /\ lastActivity' = pre.lastActivity
                /\ isSpeaking' = pre.isSpeaking
                /\ speech' = pre.speech
                /\ currentSpeechProcess' = pre.currentSpeechProcess
                /\ UNCHANGED conversationHistory
           ELSE /\ lastActivity' = now
                /\ conversationHistory' = trimConversationHistory(
                       conversationHistory \o
                       << [role |-> "user", content |-> text],
                          [role |-> "assistant", content |-> response[1]] >>)
                /\ isSpeaking' = TRUE
                /\ speech' = spawned(pre.speech, ProcId(t, "reply"))
                /\ currentSpeechProcess' = ProcId(t, "reply")
                /\ tasks' = suspend(t, Suspended("speakReply", "", ProcId(t, "reply")))
    /\ UNCHANGED <<now, nextSeg, isInConversation>>

\* processConversation(text) up to its first await of real I/O: the system
\* command of the turn when it has one (`awaits`), else the speak of the
\* reply.  `pre` as above; handleConversationInput has set lastActivity.
processConversation(t, text, awaits, pre) ==
    IF awaits
    THEN /\ lastActivity' = now
         /\ isProcessingLLM' = TRUE
         /\ currentLLMProcess' = t
         /\ tasks' = suspend(t, Suspended("think", text, NoProc))
         /\ aborted' = pre.aborted
         /\ speech' = pre.speech
         /\ currentSpeechProcess' = pre.currentSpeechProcess
         /\ isSpeaking' = pre.isSpeaking
         /\ UNCHANGED <<now, nextSeg, isInConversation, conversationHistory>>
    ELSE \E outcome \in sendToLMStudio(SignalOptions, FALSE) :
             replyArrives(t, text, outcome,
                          [ aborted |-> pre.aborted,
                            speech |-> pre.speech,
                            currentSpeechProcess |-> pre.currentSpeechProcess,
                            isSpeaking |-> pre.isSpeaking,
                            lastActivity |-> now ])

\* exit phrase: interruptCurrentProcesses(), then speak('Goodbye! ...')
ExitBranch(t, text) ==
    LET i == interruptCurrentProcesses
    IN  /\ lastActivity' = now
        /\ aborted' = i.aborted
        /\ isProcessingLLM' = i.isProcessingLLM
        /\ isSpeaking' = i.isSpeaking
        /\ currentLLMProcess' = i.currentLLMProcess
        /\ speech' = spawned(i.speech, ProcId(t, "goodbye"))
        /\ currentSpeechProcess' = ProcId(t, "goodbye")
        /\ tasks' = suspend(t, Suspended("speakGoodbye", text, ProcId(t, "goodbye")))
        /\ UNCHANGED <<now, nextSeg, isInConversation, conversationHistory>>

\* stop word: interruptCurrentProcesses(), then processConversation(newInstruction)
\* up to its first await of real I/O when an instruction follows the stop word
StopBranch(t, h) ==
    LET i == interruptCurrentProcesses
    IN  IF h.instruction = None
        THEN /\ lastActivity' = now
             /\ aborted' = i.aborted
             /\ isSpeaking' = i.isSpeaking
             /\ speech' = i.speech
             /\ currentSpeechProcess' = i.currentSpeechProcess
             /\ isProcessingLLM' = i.isProcessingLLM
             /\ currentLLMProcess' = i.currentLLMProcess
             /\ tasks' = finish(t)
             /\ UNCHANGED <<now, nextSeg, isInConversation, conversationHistory>>
        ELSE processConversation(t, h.instruction[1], h.instructionAwaits,
                                 [ aborted |-> i.aborted,
                                   speech |-> i.speech,
                                   currentSpeechProcess |-> i.currentSpeechProcess,
                                   isSpeaking |-> i.isSpeaking ])

\* an input while busy that puts the session to sleep
busyInputEndsSession(t) ==
    /\ lastActivity' = now
    /\ isInConversation' = FALSE
    /\ tasks' = finish(t)
    /\ UNCHANGED <<now, nextSeg, conversationHistory,
                   isProcessingLLM, isSpeaking, currentLLMProcess, aborted,
                   currentSpeechProcess, speech>>

\* "Max is thinking..." / "Max is speaking...": the input is ignored
BusyDiscard(t) ==
    /\ lastActivity' = now
    /\ tasks' = finish(t)
    /\ UNCHANGED <<now, nextSeg, isInConversation, conversationHistory,
                   isProcessingLLM, isSpeaking, currentLLMProcess, aborted,
                   currentSpeechProcess, speech>>

\* the normal branch: processConversation(text)
StartTurn(t, h) ==
    processConversation(t, h.text, h.awaits,
                        [ aborted |-> aborted,
                          speech |-> speech,
                          currentSpeechProcess |-> currentSpeechProcess,
                          isSpeaking |-> isSpeaking ])

handleConversationInput(t, h) ==
    IF h.exit THEN ExitBranch(t, h.text)
    ELSE IF h.stop THEN StopBranch(t, h)
    ELSE IF isProcessingLLM THEN BusyDiscard(t)
    ELSE IF isSpeaking THEN BusyDiscard(t)
    ELSE StartTurn(t, h)

Transcribed(t, rawText) ==
    /\ t \in DOMAIN tasks
    /\ tasks[t].pc = "transcribe"
    /\ LET h == Heard[rawText]
       IN  IF Len(h.text) < 2 THEN SkipShort(t)
           ELSE IF isInConversation THEN handleConversationInput(t, h)
           ELSE handleWakeWordDetection(t, h)

\* the transcription of task t's segment settles: what transcribeBufferSafe
\* returns for it is handled
TranscriptionSettles(t, outcome) ==
    Transcribed(t, transcribeBufferSafe(outcome))

(***************************************************************************)
(* The LLM call of task t settles after its system command: the rest of    *)
(* sendToLMStudioWithInterruption and processConversation up to            *)
(* `await this.speakWithInterruption(response)`.                            *)
(***************************************************************************)
LLMSettles(t, outcome) ==
    /\ t \in DOMAIN tasks
    /\ tasks[t].pc = "think"
    /\ outcome \in sendToLMStudio(SignalOptions, t \in aborted)
    /\ replyArrives(t, tasks[t].text, outcome,
                    [ aborted |-> aborted,
                      speech |-> speech,
                      currentSpeechProcess |-> currentSpeechProcess,
                      isSpeaking |-> isSpeaking,
                      lastActivity |-> lastActivity ])

(***************************************************************************)
(* A speak promise settles with `result` ("completed", "interrupted" or     *)
(* "rejected") and the handler awaiting it runs on.  procs and current are  *)
(* the speech processes and currentSpeechProcess the settling event left.   *)
(***************************************************************************)
\* exitConversationMode() up to its await of speak
exitConversationMode(t, procs, current) ==
    IF isInConversation
    THEN /\ isInConversation' = FALSE
         /\ conversationHistory' = <<>>
         /\ speech' = spawned(procs, ProcId(t, "sleep"))
         /\ currentSpeechProcess' = ProcId(t, "sleep")
         /\ tasks' = suspend(t, Suspended("speakSleep", tasks[t].text, ProcId(t, "sleep")))
    ELSE /\ tasks' = finish(t)
         /\ speech' = procs
         /\ currentSpeechProcess' = current
         /\ UNCHANGED <<isInConversation, conversationHistory>>

resumeAfterSpeak(t, result, procs, current) ==
    CASE tasks[t].pc = "speakReply" ->
            \* speakWithInterruption turns a rejection into interrupted: true
            /\ isSpeaking' = FALSE
            /\ lastActivity' = IF result = "completed" THEN now ELSE lastActivity
            /\ tasks' = finish(t)
            /\ speech' = procs
            /\ currentSpeechProcess' = current
            /\ UNCHANGED <<isInConversation, conversationHistory>>
      [] tasks[t].pc = "speakGoodbye" ->
            /\ IF result = "rejected"
               THEN \* the error leaves handleConversationInput; processAudioChunk logs it
                    /\ tasks' = finish(t)
                    /\ speech' = procs
                    /\ currentSpeechProcess' = current
                    /\ UNCHANGED <<isInConversation, conversationHistory>>
               ELSE exitConversationMode(t, procs, current)
            /\ UNCHANGED <<isSpeaking, lastActivity>>
      [] OTHER ->
            \* "speakSleep", "speakReady": the handler ends
            /\ tasks' = finish(t)
            /\ speech' = procs
            /\ currentSpeechProcess' = current
            /\ UNCHANGED <<isInConversation, conversationHistory, isSpeaking, lastActivity>>

\* the handler invocations awaiting the speak promise of process p
awaiting(p) == {t \in DOMAIN tasks : tasks[t].proc = p.id}

\* the outcome of the close handler for exit code 0 (ok) or another code
closeResult(p, ok) ==
    IF ok THEN "completed" ELSE IF p.wasInterrupted THEN "interrupted" ELSE "rejected"

\* python.on('close', code): a running process exits with code 0 or with an
\* error code, a killed one closes with code null
SpeechClose(p, ok) ==
    /\ p \in speech
    /\ p.st = "killed" => ~ok
    /\ IF p.wasInterrupted \/ awaiting(p) = {}
       THEN \* the promise was settled by onInterrupt: resolve/reject do nothing
            /\ speech' = speech \ {p}
            /\ currentSpeechProcess' = NoProc
            /\ UNCHANGED <<tasks, isInConversation, conversationHistory, isSpeaking,
                           lastActivity>>
       ELSE \E t \in awaiting(p) :
                resumeAfterSpeak(t, closeResult(p, ok), speech \ {p}, NoProc)
    /\ UNCHANGED <<now, nextSeg, isProcessingLLM, currentLLMProcess, aborted>>

\* the interrupt monitor of p's speak call heard a stop word: onInterrupt()
MonitorInterrupt(p) ==
    /\ p \in speech
    /\ ~p.wasInterrupted
    /\ currentSpeechProcess # NoProc
    /\ LET procs == {IF q.id = p.id THEN [q EXCEPT !.wasInterrupted = TRUE] ELSE q :
                        q \in killed(speech, currentSpeechProcess)}
       IN  \E t \in awaiting(p) : resumeAfterSpeak(t, "interrupted", procs, NoProc)
    /\ UNCHANGED <<now, nextSeg, isProcessingLLM, currentLLMProcess, aborted>>

LLMOutcomes == sendToLMStudio(SignalOptions, TRUE) \cup sendToLMStudio(SignalOptions, FALSE)

NextUpTo(maxSeg) ==
    \/ Tick /\ UNCHANGED <<captureVars, callVars>>
    \/ \E audioBuffer \in Segments :
          SilentChunk(audioBuffer, maxSeg) /\ UNCHANGED <<captureVars, callVars>>
    \/ \E audioBuffer \in Segments :
          SpeechChunk(audioBuffer, maxSeg) /\ UNCHANGED <<captureVars, callVars>>
    \/ \E t \in DOMAIN tasks, outcome \in TranscribeOutcomes :
          TranscriptionSettles(t, outcome) /\ UNCHANGED <<captureVars, callVars>>
    \/ \E t \in DOMAIN tasks, outcome \in LLMOutcomes :
          LLMSettles(t, outcome) /\ UNCHANGED <<captureVars, callVars>>
    \/ \E p \in speech, ok \in BOOLEAN :
          SpeechClose(p, ok) /\ UNCHANGED <<captureVars, callVars>>
    \/ \E p \in speech : MonitorInterrupt(p) /\ UNCHANGED <<captureVars, callVars>>

Next == NextUpTo(MaxSegments)

Spec == Init /\ [][Next]_vars

\* the same program followed for one more handler invocation
DeepNext == NextUpTo(MaxSegments + 1)

SpecDeep == Init /\ [][DeepNext]_vars

(***************************************************************************)
(* The history of a long session.  Turn after turn, each with its own text  *)
(* and each running to completion, processConversation pushes the pair of   *)
(* the turn and trims (lines 204-213).  The session starts Conversing, the  *)
(* greeting spoken.  The text of the n-th turn has n + 1 characters, so     *)
(* that an entry of the history tells the turn it is from.                  *)
(***************************************************************************)
RECURSIVE repeated(_, _)
repeated(c, n) == IF n = 0 THEN "" ELSE c \o repeated(c, n - 1)

TurnLetters == {"a", "b"}
turnText(n, c) == repeated(c, n + 1)

\* turns completed in a session whose first handler invocation was the wake
turnsDone == nextSeg - 2

InitTurns ==
    /\ now = 0
    /\ nextSeg = 2
    /\ tasks = <<>>
    /\ isInConversation = TRUE
    /\ conversationHistory = <<>>
    /\ lastActivity = 0
    /\ isProcessingLLM = FALSE
    /\ isSpeaking = FALSE
    /\ currentLLMProcess = 0
    /\ aborted = {}
    /\ currentSpeechProcess = NoProc
    /\ speech = {}
    /\ InitCapture
    /\ InitCall

HistoryTurn(c, outcome) ==
    /\ turnsDone < MaxTurns
    /\ llmResponse(outcome) # None
    /\ lastActivity' = now
    /\ conversationHistory' = trimConversationHistory(
           conversationHistory \o
           << [role |-> "user", content |-> turnText(turnsDone + 1, c)],
              [role |-> "assistant", content |-> llmResponse(outcome)[1]] >>)
    /\ nextSeg' = nextSeg + 1
    /\ UNCHANGED <<now, tasks, isInConversation, isProcessingLLM, isSpeaking,
                   currentLLMProcess, aborted, currentSpeechProcess, speech>>
    /\ UNCHANGED <<captureVars, callVars>>

NextTurns ==
    \E c \in TurnLetters, outcome \in sendToLMStudio(SignalOptions, FALSE) :
        HistoryTurn(c, outcome)

SpecTurns == InitTurns /\ [][NextTurns]_vars

(***************************************************************************)
(* Operations in flight, and the kinds of text a segment can carry.         *)
(***************************************************************************)
\* handler invocations whose sendToLMStudio call has not settled
thinkInFlight == {t \in DOMAIN tasks : tasks[t].pc = "think"}

\* of those, the calls whose AbortController was never aborted
thinkOutstanding == {t \in thinkInFlight : t \notin aborted}

\* handler invocations awaiting speakWithInterruption(response)
replySpeakInFlight == {t \in DOMAIN tasks : tasks[t].pc = "speakReply"}

\* replies whose TTS process is still producing sound
repliesPlaying == {p \in speech : p.id[2] = "reply" /\ p.st = "running"}

\* the process with this id has been sent SIGTERM
terminatedIn(procs, id) == \A q \in procs : q.id = id => q.st = "killed"

\* this step left handler invocation t in a turn for `text`: waiting for the
\* reply, or already speaking the reply it recorded for `text`
startedTurn(t, text) ==
    /\ t \in DOMAIN tasks'
    /\ \/ tasks'[t].pc = "think" /\ tasks'[t].text = text
       \/ /\ tasks'[t].pc = "speakReply"
          /\ Len(conversationHistory') = Len(conversationHistory) + 2
          /\ conversationHistory'[Len(conversationHistory') - 1] =
                 [role |-> "user", content |-> text]

\* texts handleConversationInput treats as stop / exit / ordinary input
longEnough(rawText) == Len(Heard[rawText].text) >= 2
isExitText(rawText) == longEnough(rawText) /\ Heard[rawText].exit
isStopText(rawText) == longEnough(rawText) /\ Heard[rawText].stop /\ ~Heard[rawText].exit
isNormalText(rawText) == longEnough(rawText) /\ ~Heard[rawText].stop /\ ~Heard[rawText].exit

\* this step is the close of handler t's TTS process, still running, with an
\* error code of its own
speechFaultOf(t) ==
    \E p \in speech : p.id = tasks[t].proc /\ p.st = "running" /\ SpeechClose(p, FALSE)

\* this step ends handler t's await of its Goodbye
goodbyeSettles(t) ==
    /\ tasks[t].pc = "speakGoodbye"
    /\ (t \notin DOMAIN tasks' \/ tasks'[t].pc # "speakGoodbye")

\* the normalised texts that hold an exit phrase and a stop word
exitAndStopTexts == {Heard[r].text : r \in {x \in RawTexts : Heard[x].exit /\ Heard[x].stop}}

(***************************************************************************)
(* C1.  In every reachable state at most one ReplyGenerator call of a turn  *)
(* is in flight and at most one reply is being spoken: a turn started       *)
(* after a stop phrase never overlaps the operation the stop phrase         *)
(* cancelled.                                                               *)
(***************************************************************************)
C1_AtMostOneTurnOperation ==
    /\ Cardinality(thinkInFlight) <= 1
    /\ Cardinality(repliesPlaying) <= 1

(***************************************************************************)
(* C2.  When the sendToLMStudio call of a turn settles after                *)
(* interruptCurrentProcesses aborted it, its reply is discarded: nothing    *)
(* is appended to conversationHistory and nothing is passed to speak.       *)
(***************************************************************************)
C2_CancelledReplyDiscarded ==
    [][\A t \in DOMAIN tasks, outcome \in LLMOutcomes :
          (t \in aborted /\ LLMSettles(t, outcome))
              => /\ conversationHistory' = conversationHistory
                 /\ speech' = speech]_vars

(***************************************************************************)
(* C3.  A stop phrase without an exit phrase, heard while an operation of   *)
(* a turn is outstanding, cancels that operation (every outstanding think   *)
(* is aborted, every reply being spoken is terminated); with an             *)
(* instruction longer than 3 characters after the stop word exactly one     *)
(* new turn is started with exactly that instruction, and otherwise no      *)
(* turn is started and the assistant stays Conversing with both flags       *)
(* false.                                                                   *)
(***************************************************************************)
C3_StopCancelsAndRestarts ==
    [][\A t \in DOMAIN tasks, rawText \in RawTexts :
          ( /\ isInConversation
            /\ isStopText(rawText)
            /\ (thinkOutstanding # {} \/ repliesPlaying # {})
            /\ Transcribed(t, rawText) )
              => /\ thinkOutstanding \subseteq aborted'
                 /\ \A p \in repliesPlaying : terminatedIn(speech', p.id)
                 /\ IF Heard[rawText].instruction # None
                    THEN /\ thinkInFlight' \subseteq thinkInFlight \cup {t}
                         /\ startedTurn(t, Heard[rawText].instruction[1])
                    ELSE /\ thinkInFlight' = thinkInFlight
                         /\ isInConversation'
                         /\ ~isProcessingLLM'
                         /\ ~isSpeaking']_vars

(***************************************************************************)
(* C4.  When a stop or exit phrase is handled while Conversing,             *)
(* interruptCurrentProcesses terminates every speech process that is        *)
(* playing: none that was running before the step is running after it,      *)
(* whatever close events arrived earlier.                                   *)
(***************************************************************************)
C4_InterruptTerminatesSpeech ==
    [][\A t \in DOMAIN tasks, rawText \in RawTexts :
          ( /\ isInConversation
            /\ (isStopText(rawText) \/ isExitText(rawText))
            /\ Transcribed(t, rawText) )
              => \A p \in speech : p.st = "running" => terminatedIn(speech', p.id)]_vars

(***************************************************************************)
(* C5.  A text that is neither an exit nor a stop phrase, heard while the   *)
(* think of a turn is outstanding (in flight and never cancelled), is       *)
(* discarded: no turn is started, conversationHistory is unchanged and the  *)
(* outstanding operation goes on undisturbed.                               *)
(***************************************************************************)
C5_BusyInputDiscarded ==
    [][\A t \in DOMAIN tasks, rawText \in RawTexts :
          ( /\ isInConversation
            /\ isNormalText(rawText)
            /\ thinkOutstanding # {}
            /\ Transcribed(t, rawText) )
              => /\ thinkInFlight' = thinkInFlight
                 /\ conversationHistory' = conversationHistory
                 /\ speech' = speech
                 /\ aborted' = aborted
                 /\ isProcessingLLM' = isProcessingLLM
                 /\ isSpeaking' = isSpeaking]_vars

(***************************************************************************)
(* C6.  Input heard while Conversing is classified exit, then stop, then    *)
(* busy, then normal.  A text with an exit phrase starts no turn, even      *)
(* with a stop word and an instruction in it, and the session ends: once    *)
(* the Goodbye of a text with both phrases is over (the TTS process not     *)
(* failing of its own) the state is Idle.  A stop phrase is honoured        *)
(* although a flag says busy; any other text heard while a flag says busy   *)
(* starts nothing.                                                          *)
(***************************************************************************)
C6_ClassificationPriority ==
    [][ /\ \A t \in DOMAIN tasks, rawText \in RawTexts :
              (isInConversation /\ longEnough(rawText) /\ Transcribed(t, rawText))
                  => /\ isExitText(rawText) =>
                          /\ thinkInFlight' = thinkInFlight
                          /\ tasks'[t].pc = "speakGoodbye"
                     /\ isStopText(rawText) =>
                          IF Heard[rawText].instruction # None
                          THEN startedTurn(t, Heard[rawText].instruction[1])
                          ELSE ~isProcessingLLM' /\ ~isSpeaking'
                     /\ (isNormalText(rawText) /\ (isProcessingLLM \/ isSpeaking)) =>
                          /\ thinkInFlight' = thinkInFlight
                          /\ isProcessingLLM' = isProcessingLLM
                          /\ isSpeaking' = isSpeaking
        /\ \A t \in DOMAIN tasks :
              ( /\ goodbyeSettles(t)
                /\ tasks[t].text \in exitAndStopTexts
                /\ ~speechFaultOf(t) )
                  => ~isInConversation' ]_vars

(***************************************************************************)
(* C7.  An exit phrase heard while Conversing cancels what is outstanding   *)
(* (both flags are cleared, every outstanding think is aborted), and once   *)
(* the handler's Goodbye is over (the TTS process not failing of its own)   *)
(* the handling goes on to state Idle with conversationHistory empty.       *)
(***************************************************************************)
C7_ExitEndsSession ==
    [][ /\ \A t \in DOMAIN tasks, rawText \in RawTexts :
              (isInConversation /\ isExitText(rawText) /\ Transcribed(t, rawText))
                  => (~isProcessingLLM' /\ ~isSpeaking')
        /\ \A t \in DOMAIN tasks :
              (goodbyeSettles(t) /\ ~speechFaultOf(t))
                  => /\ ~isInConversation'
                     /\ conversationHistory' = <<>> ]_vars

(***************************************************************************)
(* C8.  A silent segment processed while Conversing with no think or speak  *)
(* of a turn outstanding and more than conversationTimeout ms since         *)
(* lastActivity moves the state to Idle and starts the farewell exactly     *)
(* once; a silent segment processed while Idle (the farewell may still be   *)
(* playing) starts nothing; at a difference of conversationTimeout or less  *)
(* a silent segment leaves the state Conversing.                            *)
(***************************************************************************)
C8_IdleTimeout ==
    [][\A audioBuffer \in Segments :
          SilentChunk(audioBuffer, MaxSegments) =>
              /\ ( /\ isInConversation
                   /\ thinkOutstanding = {}
                   /\ replySpeakInFlight = {}
                   /\ now - lastActivity > conversationTimeout )
                     => /\ ~isInConversation'
                        /\ \E p \in speech' :
                              /\ p.id[2] = "sleep"
                              /\ p.st = "running"
                              /\ p \notin speech
                              /\ speech' = speech \cup {p}
              /\ ~isInConversation => speech' = speech
              /\ (isInConversation /\ now - lastActivity <= conversationTimeout)
                     => (isInConversation' /\ speech' = speech)]_vars

\* the idle timeout has fired: the session is over and the farewell of the
\* silent-segment handler (which has no text) is being spoken
C8_TimedOut ==
    /\ ~isInConversation
    /\ now - lastActivity > conversationTimeout
    /\ \E t \in DOMAIN tasks :
          /\ tasks[t].pc = "speakSleep"
          /\ tasks[t].text = ""
          /\ \E p \in speech : p.id = tasks[t].proc /\ p.st = "running"

(***************************************************************************)
(* C9.  The idle timeout never moves the state to Idle while the think of   *)
(* a turn is in flight or the reply of a turn is being spoken, whatever     *)
(* segments were handled since the operation started.                       *)
(***************************************************************************)
C9_NoTimeoutWhileBusy ==
    [][\A audioBuffer \in Segments :
          ( /\ isInConversation
            /\ ~isInConversation'
            /\ SilentChunk(audioBuffer, MaxSegments + 1) )
              => /\ thinkInFlight = {}
                 /\ repliesPlaying = {}]_vars

(***************************************************************************)
(* C10.  isProcessingLLM and isSpeaking are never both true.                *)
(***************************************************************************)
C10_FlagsExclusive == ~(isProcessingLLM /\ isSpeaking)

\* a turn is thinking while the handler of the reply before it, cut off by a
\* stop phrase, is still awaiting its speak call
C10_ThinkingOverCutReply ==
    /\ isProcessingLLM
    /\ ~isSpeaking
    /\ thinkInFlight # {}
    /\ replySpeakInFlight # {}

(***************************************************************************)
(* C11.  Within a turn conversationHistory is extended only after the       *)
(* sendToLMStudio call of the turn returned a reply that was not            *)
(* cancelled, the speak of a reply starts only with the history updated     *)
(* for that turn, and a turn whose speech was interrupted does not refresh  *)
(* lastActivity when its speak call is over.                                *)
(***************************************************************************)
\* this step takes handler invocation t from before its reply to speaking it
reachesSpeak(t) ==
    /\ tasks[t].pc # "speakReply"
    /\ t \in DOMAIN tasks'
    /\ tasks'[t].pc = "speakReply"

\* the speech of handler invocation t is cut off: its process was killed, or
\* its interrupt monitor fires in this step
speechCutOff(t) ==
    \E p \in speech : p.id = tasks[t].proc /\ (p.st = "killed" \/ MonitorInterrupt(p))

C11_TurnOrder ==
    [][ /\ (conversationHistory' # conversationHistory /\ conversationHistory' # <<>>)
              => \E t \in DOMAIN tasks : reachesSpeak(t) /\ t \notin aborted
        /\ \A t \in DOMAIN tasks :
              reachesSpeak(t)
                  => /\ Len(conversationHistory') >= 2
                     /\ conversationHistory' # conversationHistory
                     /\ conversationHistory'[Len(conversationHistory') - 1].role = "user"
                     /\ conversationHistory'[Len(conversationHistory')].role = "assistant"
        /\ \A t \in DOMAIN tasks :
              ( /\ tasks[t].pc = "speakReply"
                /\ t \notin DOMAIN tasks'
                /\ speechCutOff(t) )
                  => lastActivity' = lastActivity ]_vars

(***************************************************************************)
(* C12.  Segments are handled in arrival order without overlap: when the    *)
(* handling of a segment begins, the transcription result of every earlier  *)
(* segment has been applied (no earlier handler invocation is still         *)
(* awaiting its transcription).                                              *)
(***************************************************************************)
\* handler invocations whose transcription result is not applied yet
awaitingTranscription == {t \in DOMAIN tasks : tasks[t].pc = "transcribe"}

C12_SegmentsInOrder ==
    [][\A audioBuffer \in Segments :
          (processAudioChunk(audioBuffer, MaxSegments) /\ nextSeg' # nextSeg)
              => awaitingTranscription = {}]_vars

(***************************************************************************)
(* C13.  For every segment for which detectAudioActivity is false or        *)
(* isSilent is true, processAudioChunk makes no transcription call: no      *)
(* handler invocation reaches the transcribeBufferSafe await, whether the   *)
(* session is Idle or Conversing.                                            *)
(***************************************************************************)
\* the segments without activity or mostly silent
quietSegments ==
    {audioBuffer \in Segments :
        ~detectAudioActivity(audioBuffer, 200) \/ isSilent(audioBuffer, 100)}

C13_QuietSegmentNotTranscribed ==
    [][\A audioBuffer \in quietSegments :
          processAudioChunk(audioBuffer, MaxSegments)
              => awaitingTranscription' = awaitingTranscription]_vars

\* a quiet segment has been handled (its handler invocation is the one the
\* idle timeout started) and nothing is being transcribed
C13_QuietSegmentHandled ==
    /\ awaitingTranscription = {}
    /\ \E t \in DOMAIN tasks : tasks[t].pc = "speakSleep"

(***************************************************************************)
(* C14.  After every turn conversationHistory has at most 16 entries, and   *)
(* trimConversationHistory returns exactly the last 16 entries of its       *)
(* input in their order (the input itself when it has at most 16): after n  *)
(* turns the history is the pairs of the last min(n, 8) turns, oldest       *)
(* first, so that ten pairs pushed leave the pairs of turns 3 to 10.        *)
(***************************************************************************)
C14_HistoryIsLastEightPairs ==
    /\ [](LET kept == IF turnsDone < 8 THEN turnsDone ELSE 8
          IN  /\ Len(conversationHistory) <= 16
              /\ Len(conversationHistory) = 2 * kept
              /\ \A i \in 1..kept :
                    /\ conversationHistory[2 * i - 1].role = "user"
                    /\ Len(conversationHistory[2 * i - 1].content)
                           = (turnsDone - kept + i) + 1
                    /\ conversationHistory[2 * i].role = "assistant")
    /\ [][LET pushed == Len(conversationHistory) + 2
              dropped == IF pushed <= 16 THEN 0 ELSE pushed - 16
          IN  /\ Len(conversationHistory') = pushed - dropped
              /\ \A i \in 1..(Len(conversationHistory') - 2) :
                    conversationHistory'[i] = conversationHistory[dropped + i]
              /\ conversationHistory'[Len(conversationHistory') - 1].role = "user"
              /\ conversationHistory'[Len(conversationHistory')].role = "assistant"]_vars

\* ten pairs have been pushed: the history holds sixteen entries, the first
\* of them the text of the third turn
C14_TenPairsPushed ==
    /\ turnsDone = 10
    /\ Len(conversationHistory) = 16
    /\ Len(conversationHistory[1].content) = 4

(***************************************************************************)
(* C15.  interruptCurrentProcesses called when no think and no speak        *)
(* operation is outstanding is a no-op: everything it writes keeps its      *)
(* value, and the conversation state and the history are left alone.  A     *)
(* second call right after a first one changes nothing more.                *)
(***************************************************************************)
\* what interruptCurrentProcesses writes, as it is now
writtenByInterrupt ==
    [ aborted |-> aborted,
      speech |-> speech,
      currentSpeechProcess |-> currentSpeechProcess,
      isProcessingLLM |-> isProcessingLLM,
      isSpeaking |-> isSpeaking,
      currentLLMProcess |-> currentLLMProcess ]

\* no sendToLMStudio call and no speak call is pending
nothingOutstanding ==
    /\ speech = {}
    /\ \A t \in DOMAIN tasks : tasks[t].pc = "transcribe"

\* a text with a stop word and nothing after it: its handling is one call of
\* interruptCurrentProcesses
isBareStop(rawText) == isStopText(rawText) /\ Heard[rawText].instruction = None

C15_InterruptIdempotent ==
    /\ [](nothingOutstanding => interruptCurrentProcesses = writtenByInterrupt)
    /\ [][\A t \in DOMAIN tasks, rawText \in RawTexts :
            (isInConversation /\ isBareStop(rawText) /\ Transcribed(t, rawText))
                => /\ interruptCurrentProcesses' = writtenByInterrupt'
                   /\ nothingOutstanding
                          => /\ writtenByInterrupt' = writtenByInterrupt
                             /\ UNCHANGED <<isInConversation, conversationHistory>>]_vars

\* the state a stop word leaves when nothing was outstanding: Conversing with
\* no turn made, no handler suspended and no process, a second handler
\* invocation over and lastActivity at the present time
C15_StoppedWithNothingToStop ==
    /\ isInConversation
    /\ nothingOutstanding
    /\ tasks = <<>>
    /\ conversationHistory = <<>>
    /\ nextSeg > 2
    /\ lastActivity = now
    /\ now > 0

(***************************************************************************)
(* C16.  While Idle, a transcribed text of two characters or more without   *)
(* a wake word changes no state of the assistant and starts no operation;   *)
(* one with a wake word sets the state to Conversing, empties                *)
(* conversationHistory, sets lastActivity to the present time and starts     *)
(* speaking the greeting.                                                    *)
(***************************************************************************)
\* the texts of this model in which detectWakeWord finds a wake word
wakingTexts == {rawText \in RawTexts : detectWakeWord(normalizeTranscript(rawText))}

C16_WakeOnlyOnWakeWord ==
    [][\A t \in DOMAIN tasks, rawText \in RawTexts :
          (~isInConversation /\ longEnough(rawText) /\ Transcribed(t, rawText))
              => IF rawText \in wakingTexts
                 THEN /\ isInConversation'
                      /\ conversationHistory' = <<>>
                      /\ lastActivity' = now
                      /\ tasks'[t].pc = "speakReady"
                      /\ speech' = speech \cup
                             {[id |-> tasks'[t].proc, st |-> "running", wasInterrupted |-> FALSE]}
                      /\ tasks'[t].proc[2] = "ready"
                      /\ UNCHANGED <<isProcessingLLM, isSpeaking, currentLLMProcess, aborted>>
                 ELSE /\ t \notin DOMAIN tasks'
                      /\ \A u \in DOMAIN tasks' : tasks'[u] = tasks[u]
                      /\ UNCHANGED <<isInConversation, conversationHistory, lastActivity,
                                     isProcessingLLM, isSpeaking, currentLLMProcess,
                                     aborted, currentSpeechProcess, speech>>]_vars

\* a wake word was heard after the clock had moved on: Conversing, the
\* greeting being spoken, lastActivity at the time of the wake
C16_Greeting ==
    /\ isInConversation
    /\ now > 0
    /\ lastActivity = now
    /\ conversationHistory = <<>>
    /\ \E t \in DOMAIN tasks :
          /\ tasks[t].pc = "speakReady"
          /\ \E p \in speech : p.id = tasks[t].proc /\ p.st = "running"

(***************************************************************************)
(* C17.  A segment whose transcription, once normalised, has fewer than two *)
(* characters is discarded, Idle or Conversing: its handler invocation ends *)
(* and nothing else changes -- no operation is started or cancelled, and    *)
(* the conversation state, the history and lastActivity keep their values.  *)
(***************************************************************************)
\* the texts of this model that are shorter than two characters once normalised
shortTexts == {rawText \in RawTexts : Len(normalizeTranscript(rawText)) < 2}

C17_ShortTextDiscarded ==
    [][\A t \in DOMAIN tasks, rawText \in shortTexts :
          Transcribed(t, rawText)
              => /\ t \notin DOMAIN tasks'
                 /\ \A u \in DOMAIN tasks' : u \in DOMAIN tasks /\ tasks'[u] = tasks[u]
                 /\ UNCHANGED <<isInConversation, conversationHistory, lastActivity,
                                isProcessingLLM, isSpeaking, currentLLMProcess,
                                aborted, currentSpeechProcess, speech>>]_vars

\* a state a discarded text leaves while Conversing and busy: a turn waits for
\* its reply, a later handler invocation is over, and lastActivity is that of
\* the turn although the clock has moved on
C17_DiscardedWhileThinking ==
    /\ isInConversation
    /\ isProcessingLLM
    /\ lastActivity < now
    /\ awaitingTranscription = {}
    /\ \E t \in thinkInFlight : nextSeg > t + 1

(***************************************************************************)
(* C18.  The conversation state goes from Idle to Conversing only when a    *)
(* wake word is detected in a text handled while Idle, and from Conversing  *)
(* to Idle only in the handling of an exit phrase (after its Goodbye) or in *)
(* the idle-timeout check of a segment without speech.  No sendToLMStudio   *)
(* call that settles, and no reply, greeting or farewell speech that ends,  *)
(* fails or is cut off, changes the conversation state.                     *)
(***************************************************************************)
\* this step is the exit-phrase handler t running on after its Goodbye
exitHandlingResumes(t) ==
    /\ goodbyeSettles(t)
    /\ isExitPhrase(tasks[t].text)

\* the speech process p is not the Goodbye an exit-phrase handler awaits
notAwaitedGoodbye(p) == \A t \in awaiting(p) : tasks[t].pc # "speakGoodbye"

C18_StateChangesOnlyByPhraseOrTimeout ==
    [][ (isInConversation' # isInConversation)
          => /\ IF isInConversation'
                THEN \E t \in DOMAIN tasks, rawText \in wakingTexts : Transcribed(t, rawText)
                ELSE \/ \E audioBuffer \in quietSegments :
                            SilentChunk(audioBuffer, MaxSegments)
                     \/ \E t \in DOMAIN tasks : exitHandlingResumes(t)
             /\ ~ \E t \in DOMAIN tasks, outcome \in LLMOutcomes : LLMSettles(t, outcome)
             /\ ~ \E p \in speech :
                     /\ notAwaitedGoodbye(p)
                     /\ \/ MonitorInterrupt(p)
                        \/ \E ok \in BOOLEAN : SpeechClose(p, ok) ]_vars

\* the session was ended by an exit phrase: Idle, the farewell of the handler
\* that heard the phrase being spoken
C18_AsleepAfterExitPhrase ==
    /\ ~isInConversation
    /\ \E t \in DOMAIN tasks :
          /\ tasks[t].pc = "speakSleep"
          /\ tasks[t].text # ""
          /\ isExitPhrase(tasks[t].text)

(***************************************************************************)
(* C19.  When the speak call of a turn fails with a fault of its own (its   *)
(* process was not killed and no interrupt was heard), the fault is caught, *)
(* an apology is spoken, isProcessingLLM and isSpeaking are false           *)
(* afterwards and the state stays Conversing.                               *)
(***************************************************************************)
\* the speech processes this step starts
startedSpeech == {p.id : p \in speech'} \ {p.id : p \in speech}

C19_FaultApologised ==
    [][\A t \in replySpeakInFlight :
          (isInConversation /\ speechFaultOf(t))
              => /\ startedSpeech # {}
                 /\ ~isProcessingLLM'
                 /\ ~isSpeaking'
                 /\ isInConversation']_vars

(***************************************************************************)
(* C20.  A transcription that fails for a segment (the process cannot be    *)
(* run, exits with a non-zero code, or times out) yields the empty text for *)
(* that segment only: the segment is discarded -- its handler invocation    *)
(* ends normally, the conversation state, the history, the busy flags and   *)
(* lastActivity keep their values -- and the other handler invocations and   *)
(* the segments still to come are not affected.                              *)
(***************************************************************************)
C20_FailedTranscriptionDiscarded ==
    [][\A t \in DOMAIN tasks, outcome \in TranscribeFailures :
          TranscriptionSettles(t, outcome)
              => /\ transcribeBufferSafe(outcome) = ""
                 /\ t \notin DOMAIN tasks'
                 /\ \A u \in DOMAIN tasks \ {t} : u \in DOMAIN tasks' /\ tasks'[u] = tasks[u]
                 /\ UNCHANGED <<nextSeg, isInConversation, conversationHistory, lastActivity,
                                isProcessingLLM, isSpeaking, currentLLMProcess,
                                aborted, currentSpeechProcess, speech>>]_vars

\* a segment handled while Idle left nothing behind and a later segment was
\* processed: it woke the assistant
C20_LaterSegmentProcessed ==
    /\ isInConversation
    /\ \E t \in DOMAIN tasks :
          /\ t >= 2
          /\ tasks[t].pc = "speakReady"
          /\ \A u \in 1..(t - 1) : u \notin DOMAIN tasks
    /\ speech = {[id |-> ProcId(nextSeg - 1, "ready"), st |-> "running", wasInterrupted |-> FALSE]}

(***************************************************************************)
(* The buffer of the audio source.  A capture process runs and delivers its *)
(* bytes in 'data' events of any size; the options are such that a segment  *)
(* has a few bytes.                                                          *)
(***************************************************************************)
InitBuffer ==
    /\ InitAssistant
    /\ InitCall
    /\ \E options \in SmallOptions :
          audioStreamer = [AudioStreamer(options) EXCEPT !.isStreaming = TRUE,
                                                         !.ffmpegProcess = 1]
    /\ ffmpeg = (1 :> "running")
    /\ emitted = <<>>
    /\ received = <<>>
    /\ restarts = <<>>
    /\ faults = 0

\* ffmpegProcess.stdout.on('data'): handleAudioChunk(chunk)
StdoutData(p, chunk) ==
    /\ p \in DOMAIN ffmpeg
    /\ Len(received) + Len(chunk) <= MaxBytes
    /\ LET r == handleAudioChunk(audioStreamer.audioBuffer, audioStreamer.chunkSize, chunk)
       IN  /\ audioStreamer' = [audioStreamer EXCEPT !.audioBuffer = r.audioBuffer]
           /\ emitted' = emitted \o r.emitted
    /\ received' = received \o chunk
    /\ UNCHANGED <<ffmpeg, restarts, faults>>

NextBuffer ==
    \E p \in DOMAIN ffmpeg, chunk \in ChunksOf(Bytes) :
        StdoutData(p, chunk) /\ UNCHANGED <<assistantVars, callVars>>

SpecBuffer == InitBuffer /\ [][NextBuffer]_vars

\* the bytes of a sequence of segments, in order
RECURSIVE concatenation(_)
concatenation(segments) ==
    IF segments = <<>> THEN <<>> ELSE Head(segments) \o concatenation(Tail(segments))

(***************************************************************************)
(* C21.  For any sequence of 'data' events the audio source emits segments  *)
(* of exactly chunkSize bytes, the emitted segments in order followed by    *)
(* the retained buffer are the bytes received since the buffer was last     *)
(* emptied, and after handleAudioChunk the retained buffer is shorter than  *)
(* chunkSize.                                                                *)
(***************************************************************************)
C21_SegmentsPartitionTheStream ==
    /\ \A i \in 1..Len(emitted) : Len(emitted[i]) = audioStreamer.chunkSize
    /\ concatenation(emitted) \o audioStreamer.audioBuffer = received
    /\ Len(audioStreamer.audioBuffer) < audioStreamer.chunkSize

\* segments of more than one byte have been emitted and bytes are retained
C21_SegmentsAndRemainder ==
    /\ audioStreamer.chunkSize > 1
    /\ Len(emitted) >= 2
    /\ audioStreamer.audioBuffer # <<>>
    /\ emitted[1] # emitted[2]

(***************************************************************************)
(* Capture and its restart.  A capture process delivers data until it       *)
(* closes; a close with a code other than 0 and an 'error' event of the     *)
(* process make the audio source emit 'error', on which the assistant       *)
(* calls restartStreaming(): stop if active, wait 1 s, startStreaming(),    *)
(* and on failure call itself again after 5 s.  startStreaming() looks the  *)
(* device up (an await) between its isStreaming test and its spawn.         *)
(* A process is "running", "killed" (SIGTERM sent by stopStreaming) or      *)
(* "errored" ('error' emitted), until its close event.                      *)
(***************************************************************************)
\* the smallest id not in use
freeId(used) == CHOOSE i \in 1..(Cardinality(used) + 1) : i \notin used

\* stopStreaming(): what it leaves
stopStreaming ==
    IF audioStreamer.ffmpegProcess # 0 /\ audioStreamer.isStreaming
    THEN [ audioStreamer |-> [audioStreamer EXCEPT !.isStreaming = FALSE,
                                                   !.audioBuffer = <<>>],
           ffmpeg |-> [p \in DOMAIN ffmpeg |->
                          IF p = audioStreamer.ffmpegProcess /\ ffmpeg[p] = "running"
                          THEN "killed" ELSE ffmpeg[p]],
           emitted |-> <<>>,
           received |-> <<>> ]
    ELSE [ audioStreamer |-> audioStreamer, ffmpeg |-> ffmpeg,
           emitted |-> emitted, received |-> received ]

\* isActive()
isActive == audioStreamer.isStreaming

\* the 'error' listener of the assistant: restartStreaming() up to its 1 s
\* wait, on a streamer that the emitting handler has left inactive
restartStreaming == restarts @@ (freeId(DOMAIN restarts) :> "wait1s")

\* the state after start(): one capture process running
InitRunning ==
    /\ InitAssistant
    /\ InitCall
    /\ audioStreamer = [AudioStreamer([sampleRate |-> 1000, channels |-> 1,
                                       chunkDuration |-> 1])
                           EXCEPT !.isStreaming = TRUE, !.ffmpegProcess = 1]
    /\ ffmpeg = (1 :> "running")
    /\ emitted = <<>>
    /\ received = <<>>
    /\ restarts = <<>>
    /\ faults = 0

\* ffmpegProcess.on('close', code): a killed process closes with code null, an
\* errored one with an error code, a running one ends on its own with any code
ProcessCloses(p, code) ==
    /\ p \in DOMAIN ffmpeg
    /\ ffmpeg[p] = "killed" => code = "null"
    /\ ffmpeg[p] = "errored" => code = "nonzero"
    /\ IF ffmpeg[p] = "running"
       THEN faults < MaxFaults /\ faults' = faults + 1
       ELSE UNCHANGED faults
    /\ ffmpeg' = [q \in DOMAIN ffmpeg \ {p} |-> ffmpeg[q]]
    /\ audioStreamer' = [audioStreamer EXCEPT !.isStreaming = FALSE]
    /\ restarts' = IF code # "zero" THEN restartStreaming ELSE restarts
    /\ UNCHANGED <<emitted, received>>

\* ffmpegProcess.on('error', err); the close event of the process follows
ProcessError(p) ==
    /\ p \in DOMAIN ffmpeg
    /\ ffmpeg[p] = "running"
    /\ faults < MaxFaults
    /\ faults' = faults + 1
    /\ ffmpeg' = [ffmpeg EXCEPT ![p] = "errored"]
    /\ audioStreamer' = [audioStreamer EXCEPT !.isStreaming = FALSE]
    /\ restarts' = restartStreaming
    /\ UNCHANGED <<emitted, received>>

\* startStreaming() with its test of isStreaming inside the try: the catch
\* clears the flag of the running stream
alreadyStreamingCaught(r) ==
    /\ r \in DOMAIN restarts
    /\ restarts[r] = "wait1s"
    /\ restarts' = [restarts EXCEPT ![r] = IF audioStreamer.isStreaming
                                           THEN "retry5s" ELSE "device"]
    /\ audioStreamer' = [audioStreamer EXCEPT !.isStreaming = FALSE]
    /\ UNCHANGED <<ffmpeg, emitted, received, faults>>

\* the 1 s wait of restartStreaming is over: startStreaming() up to its await
\* of getDefaultAudioDevice(), or its 'Already streaming' and the catch of
\* restartStreaming
RestartWaitOver(r) ==
    /\ r \in DOMAIN restarts
    /\ restarts[r] = "wait1s"
    /\ restarts' = [restarts EXCEPT ![r] = IF audioStreamer.isStreaming
                                           THEN "retry5s" ELSE "device"]
    /\ UNCHANGED <<audioStreamer, ffmpeg, emitted, received, faults>>

\* a startStreaming() whose failure is not retried: the catch of
\* restartStreaming() without its timer
deviceFailureGivesUp(r, found) ==
    /\ r \in DOMAIN restarts
    /\ restarts[r] = "device"
    /\ IF found
       THEN LET p == freeId(DOMAIN ffmpeg)
            IN  /\ ffmpeg' = ffmpeg @@ (p :> "running")
                /\ audioStreamer' = [audioStreamer EXCEPT !.ffmpegProcess = p,
                                                          !.isStreaming = TRUE]
                /\ UNCHANGED faults
       ELSE /\ faults < MaxFaults
            /\ faults' = faults + 1
            /\ audioStreamer' = [audioStreamer EXCEPT !.isStreaming = FALSE]
            /\ UNCHANGED ffmpeg
    /\ restarts' = [q \in DOMAIN restarts \ {r} |-> restarts[q]]
    /\ UNCHANGED <<emitted, received>>

\* getDefaultAudioDevice() settles: the rest of startStreaming()
DeviceResolves(r, found) ==
    /\ r \in DOMAIN restarts
    /\ restarts[r] = "device"
    /\ IF found
       THEN LET p == freeId(DOMAIN ffmpeg)
            IN  /\ ffmpeg' = ffmpeg @@ (p :> "running")
                /\ audioStreamer' = [audioStreamer EXCEPT !.ffmpegProcess = p,
                                                          !.isStreaming = TRUE]
                /\ restarts' = [q \in DOMAIN restarts \ {r} |-> restarts[q]]
                /\ UNCHANGED faults
       ELSE /\ faults < MaxFaults
            /\ faults' = faults + 1
            /\ audioStreamer' = [audioStreamer EXCEPT !.isStreaming = FALSE]
            /\ restarts' = [restarts EXCEPT ![r] = "retry5s"]
            /\ UNCHANGED ffmpeg
    /\ UNCHANGED <<emitted, received>>

\* the 5 s timer of the catch fires: restartStreaming() up to its 1 s wait
RetryTimerFires(r) ==
    /\ r \in DOMAIN restarts
    /\ restarts[r] = "retry5s"
    /\ LET s == IF isActive THEN stopStreaming
                ELSE [ audioStreamer |-> audioStreamer, ffmpeg |-> ffmpeg,
                       emitted |-> emitted, received |-> received ]
       IN  /\ audioStreamer' = s.audioStreamer
           /\ ffmpeg' = s.ffmpeg
           /\ emitted' = s.emitted
           /\ received' = s.received
    /\ restarts' = [restarts EXCEPT ![r] = "wait1s"]
    /\ UNCHANGED faults

ExitCodes == {"zero", "nonzero", "null"}

NextCapture ==
    \/ \E p \in DOMAIN ffmpeg, chunk \in ChunksOf({0}) :
          StdoutData(p, chunk) /\ UNCHANGED <<assistantVars, callVars>>
    \/ \E p \in DOMAIN ffmpeg, code \in ExitCodes :
          ProcessCloses(p, code) /\ UNCHANGED <<assistantVars, callVars>>
    \/ \E p \in DOMAIN ffmpeg : ProcessError(p) /\ UNCHANGED <<assistantVars, callVars>>
    \/ \E r \in DOMAIN restarts : RestartWaitOver(r) /\ UNCHANGED <<assistantVars, callVars>>
    \/ \E r \in DOMAIN restarts, found \in BOOLEAN :
          DeviceResolves(r, found) /\ UNCHANGED <<assistantVars, callVars>>
    \/ \E r \in DOMAIN restarts : RetryTimerFires(r) /\ UNCHANGED <<assistantVars, callVars>>

SpecCapture == InitRunning /\ [][NextCapture]_vars

(***************************************************************************)
(* C22.  After stopStreaming() capture is halted: isActive() is false, the  *)
(* partially filled buffer is empty, and until startStreaming() is called   *)
(* again no further segment is emitted (and the buffer stays empty).        *)
(***************************************************************************)
\* capture has been stopped and not started again: the streamer is inactive,
\* its process is the one stopStreaming killed, and no startStreaming() is in
\* progress
captureStopped ==
    /\ ~audioStreamer.isStreaming
    /\ audioStreamer.ffmpegProcess \in DOMAIN ffmpeg
    /\ ffmpeg[audioStreamer.ffmpegProcess] = "killed"
    /\ \A r \in DOMAIN restarts : restarts[r] # "device"

C22_StoppedCaptureIsSilent ==
    [][ /\ (\E r \in DOMAIN restarts : isActive /\ RetryTimerFires(r))
              => /\ ~audioStreamer'.isStreaming
                 /\ audioStreamer'.audioBuffer = <<>>
        /\ (captureStopped /\ captureStopped')
              => /\ emitted' = emitted
                 /\ audioStreamer'.audioBuffer = <<>> ]_vars

\* ids that restartStreaming invocations in progress can have: a fault makes
\* the streamer emit 'error' at most twice
RestartIds == 1..(2 * MaxFaults)

\* a restartStreaming invocation r that no longer waits
restartProceeds(r) ==
    \/ RestartWaitOver(r)
    \/ \E found \in BOOLEAN : DeviceResolves(r, found)
    \/ RetryTimerFires(r)

(***************************************************************************)
(* Capture with its scheduling: every timer of restartStreaming fires,      *)
(* every device look-up settles, and the close event of a killed or         *)
(* errored process arrives.  The device can be opened once MaxFaults        *)
(* faults have occurred.                                                     *)
(***************************************************************************)
SpecCaptureFair ==
    /\ SpecCapture
    /\ \A r \in RestartIds : WF_vars(restartProceeds(r) /\ UNCHANGED <<assistantVars, callVars>>)
    /\ WF_vars(\E p \in DOMAIN ffmpeg :
                  /\ ffmpeg[p] # "running"
                  /\ \E code \in ExitCodes : ProcessCloses(p, code)
                  /\ UNCHANGED <<assistantVars, callVars>>)

(***************************************************************************)
(* C23.  After every 'error' event of the audio source the assistant waits  *)
(* and restarts capture, and a failed attempt is always followed by another *)
(* attempt after a delay: while a restart is in progress capture eventually *)
(* becomes active, and a restart waiting for its retry always gets to its   *)
(* next attempt.                                                             *)
(***************************************************************************)
C23_RestartEventuallySucceeds ==
    /\ (restarts # <<>>) ~> audioStreamer.isStreaming
    /\ \A r \in RestartIds :
          (r \in DOMAIN restarts /\ restarts[r] = "retry5s")
              ~> (r \in DOMAIN restarts /\ restarts[r] = "wait1s")

\* capture is active again after a restart whose first attempt failed: both
\* faults have occurred and the process running is not the first one
C23_ActiveAfterFailedAttempt ==
    /\ audioStreamer.isStreaming
    /\ faults = MaxFaults
    /\ restarts = <<>>
    /\ DOMAIN ffmpeg = {audioStreamer.ffmpegProcess}
    /\ ffmpeg[audioStreamer.ffmpegProcess] = "running"

(***************************************************************************)
(* The value of a speak promise                                             *)
(***************************************************************************)
\* how the close handler settles the promise of process p: the value passed
\* to resolve, or a rejection
closeSettlement(p, ok) ==
    IF ok
    THEN [ settled |-> "resolved", completed |-> TRUE, interrupted |-> p.wasInterrupted ]
    ELSE IF p.wasInterrupted
         THEN [ settled |-> "resolved", completed |-> FALSE, interrupted |-> TRUE ]
         ELSE [ settled |-> "rejected", completed |-> FALSE, interrupted |-> FALSE ]

\* how onInterrupt settles it
interruptSettlement == [ settled |-> "resolved", completed |-> FALSE, interrupted |-> TRUE ]

\* a speakWithInterruption without its catch: the rejection carries no flags
speakWithoutCatch(settlement) ==
    [ completed |-> settlement.completed, interrupted |-> settlement.interrupted ]

\* the value processConversation receives from `await this.speakWithInterruption`
speakWithInterruption(settlement) ==
    IF settlement.settled = "rejected"
    THEN [ completed |-> FALSE, interrupted |-> TRUE ]
    ELSE [ completed |-> settlement.completed, interrupted |-> settlement.interrupted ]

\* the speech processes a reply's handler awaits: their promise is not settled
replySpeech == {p \in speech : \E t \in awaiting(p) : tasks[t].pc = "speakReply"}

\* the ways the promise of p can settle in this state
settlements(p) ==
    {closeSettlement(p, ok) : ok \in {b \in BOOLEAN : p.st = "killed" => ~b}}
        \cup (IF ~p.wasInterrupted /\ currentSpeechProcess # NoProc
              THEN {interruptSettlement} ELSE {})

(***************************************************************************)
(* C24.  Every result the assistant receives for a reply's speech has       *)
(* exactly one of completed and interrupted true, also when the speech was  *)
(* killed by interruptSpeech() or stopped by its own stop-word monitor.     *)
(***************************************************************************)
C24_ExactlyOneOfCompletedInterrupted ==
    \A p \in replySpeech : \A s \in settlements(p) :
        speakWithInterruption(s).completed # speakWithInterruption(s).interrupted

\* a reply's speech was killed by interruptSpeech(): its close will reject
C24_KilledReplyAwaited ==
    \E p \in replySpeech :
        /\ p.st = "killed"
        /\ ~p.wasInterrupted
        /\ closeSettlement(p, FALSE).settled = "rejected"

\* the utterances that take leave of the user
Farewells == {"goodbye", "sleep"}

\* the handler invocations whose exitConversationMode() runs in this step
leaving == {t \in DOMAIN tasks' :
               /\ tasks'[t].pc = "speakSleep"
               /\ t \in DOMAIN tasks => tasks[t].pc # "speakSleep"}

\* the farewells handler invocation t has spoken by the end of this step:
\* the one whose speech ends in the step and the one the step starts
farewellsSpoken(t) == {p.id : p \in {q \in speech \cup speech' : q.id[1] = t /\ q.id[2] \in Farewells}}

(***************************************************************************)
(* C25.  Every transition from conversing to idle, by an exit phrase or by  *)
(* the idle timeout, speaks exactly one farewell utterance.                  *)
(***************************************************************************)
C25_OneFarewellPerExit ==
    [][ (isInConversation /\ ~isInConversation')
            => \A t \in leaving : Cardinality(farewellsSpoken(t)) = 1 ]_vars

(***************************************************************************)
(* Calls of detectWakeWord(text).  The texts are up to MaxWords fragments,  *)
(* joined with or without a space, with or without a space before and       *)
(* after.                                                                    *)
(***************************************************************************)
WakeFragments == {"max", "MAX", "hey", "wake up", "i", "."}

\* the texts of n fragments, joined with or without a space
RECURSIVE joined(_, _)
joined(fragments, n) ==
    IF n = 1 THEN fragments
    ELSE {a \o sep \o w : a \in joined(fragments, n - 1), sep \in {"", " "}, w \in fragments}

WakeTexts ==
    {before \o t \o after :
        before \in {"", " "}, after \in {"", " "},
        t \in UNION {joined(WakeFragments, n) : n \in 1..MaxWords}}

InitWake ==
    /\ InitAssistant
    /\ InitCapture
    /\ argument \in WakeTexts
    /\ returned = None
    /\ stt = None

DetectWakeWord ==
    /\ returned = None
    /\ returned' = Some(detectWakeWord(argument))
    /\ UNCHANGED <<argument, stt, assistantVars, captureVars>>

SpecWake == InitWake /\ [][DetectWakeWord]_vars

\* the ways s is pre, then w, then post: the pairs <<pre, post>>
decompositions(s, w) ==
    {d \in {<<SubSeq(s, 1, i), SubSeq(s, i + Len(w) + 1, Len(s))>> : i \in 0..(Len(s) - Len(w))} :
        s = d[1] \o w \o d[2]}

occurs(s, w) == decompositions(s, w) # {}

\* the word is the whole text, or a space separates it from what is before
\* and from what is after
standsAlone(s, w) ==
    \E d \in decompositions(s, w) :
        /\ d[1] = "" \/ charAt(d[1], Len(d[1])) = " "
        /\ d[2] = "" \/ charAt(d[2], 1) = " "

\* an exact-match word occurs in the text, and only inside longer words
onlyInsideWords(s) ==
    /\ \E k \in 1..Len(exactMatches) : occurs(s, exactMatches[k])
    /\ \A k \in 1..Len(exactMatches) : ~standsAlone(s, exactMatches[k])
    /\ \A k \in 1..Len(wakeWords) : ~occurs(s, wakeWords[k])

(***************************************************************************)
(* C26.  detectWakeWord(text) is true exactly when, in the lower-cased and  *)
(* trimmed text, a wake phrase occurs anywhere or an exact-match word       *)
(* stands alone: it is the text, starts it followed by a space, ends it     *)
(* preceded by a space, or has a space on both sides.  A word that occurs   *)
(* only inside a longer word does not wake the assistant.                    *)
(***************************************************************************)
C26_WakeWordDetection ==
    returned # None =>
        LET s == trim(toLowerCase(argument))
        IN  /\ returned[1] =
                  ( \/ \E k \in 1..Len(wakeWords) : occurs(s, wakeWords[k])
                    \/ \E k \in 1..Len(exactMatches) : standsAlone(s, exactMatches[k]) )
            /\ onlyInsideWords(s) => returned[1] = FALSE

\* a text with "max" only inside a longer word was refused
C26_InsideLongerWord ==
    /\ returned = Some(FALSE)
    /\ onlyInsideWords(trim(toLowerCase(argument)))

\* handler invocations that are at `pc` before this step and not after it
leaves(pc) == {t \in DOMAIN tasks :
                  /\ tasks[t].pc = pc
                  /\ t \in DOMAIN tasks' => tasks'[t].pc # pc}

\* handler invocations that this step brings to `pc`
arrives(pc) == {t \in DOMAIN tasks' :
                   /\ tasks'[t].pc = pc
                   /\ t \in DOMAIN tasks => tasks[t].pc # pc}

\* this step hands a text of two characters or more to handleConversationInput
textHandled ==
    /\ isInConversation
    /\ leaves("transcribe") # {}
    /\ \E t \in leaves("transcribe"), outcome \in TranscribeOutcomes :
          /\ Len(Heard[transcribeBufferSafe(outcome)].text) >= 2
          /\ TranscriptionSettles(t, outcome)

(***************************************************************************)
(* C27.  While conversing, lastActivity is set to the current time when a   *)
(* user text is handled, when a reply is produced and its speech starts,    *)
(* and when that speech ends, completed or interrupted.                      *)
(***************************************************************************)
C27_ActivityAtEveryEvent ==
    [][ /\ textHandled => lastActivity' = now'
        /\ (isInConversation /\ arrives("speakReply") # {}) => lastActivity' = now'
        /\ (isInConversation /\ isInConversation' /\ leaves("speakReply") # {})
              => lastActivity' = now' ]_vars

(***************************************************************************)
(* Calls of extractInstructionAfterStop(text).  The texts are up to         *)
(* MaxParts fragments: stop words (two of them overlapping in "skipause"),  *)
(* separators, connectives and a word.                                      *)
(***************************************************************************)
StopFragments == {"stop", "WAIT", "never mind", "skipause", ",", ";", "and", "then", "now", "sing"}

StopTexts == UNION {joined(StopFragments, n) : n \in 1..MaxParts}

InitStop ==
    /\ InitAssistant
    /\ InitCapture
    /\ argument \in StopTexts
    /\ returned = None
    /\ stt = None

ExtractInstruction ==
    /\ returned = None
    /\ returned' = Some(extractInstructionAfterStop(argument))
    /\ UNCHANGED <<argument, stt, assistantVars, captureVars>>

SpecStop == InitStop /\ [][ExtractInstruction]_vars

\* the 0-based positions at which stop word k occurs in s
matches(s, k) ==
    {i \in 0..(Len(s) - Len(stopWords[k])) : SubSeq(s, i + 1, i + Len(stopWords[k])) = stopWords[k]}

\* the positions at which the matches of the stop words end
matchEnds(s) == UNION {{i + Len(stopWords[k]) : i \in matches(s, k)} : k \in 1..Len(stopWords)}

\* lines 308-315 for the text cut at position n
instructionAfter(text, n) ==
    LET remainingText == stripConnective(stripSeparator(trim(substring(text, n))))
    IN  IF Len(remainingText) > 3 THEN Some(remainingText) ELSE None

(***************************************************************************)
(* C28.  For a text with a stop word, extractInstructionAfterStop cuts the  *)
(* text at the end of the stop-word match that ends soonest, whatever the   *)
(* order of the stop words in the list and however many occur.               *)
(***************************************************************************)
C28_CutAtSoonestEndingMatch ==
    (returned # None /\ containsStopWords(argument)) =>
        LET ends == matchEnds(toLowerCase(argument))
            soonest == CHOOSE e \in ends : \A f \in ends : e <= f
        IN  returned[1] = instructionAfter(argument, soonest)

\* two stop words occur, the one later in the list first in the text, and the
\* instruction returned is the text after that one
C28_LaterListedWordFirst ==
    /\ returned # None
    /\ returned[1] # None
    /\ \E k, l \in 1..Len(stopWords) :
          LET s == toLowerCase(argument)
          IN  /\ k < l
              /\ matches(s, k) # {}
              /\ matches(s, l) # {}
              /\ \A i \in matches(s, k), j \in matches(s, l) : j < i
              /\ returned[1] # instructionAfter(argument, indexOf(s, stopWords[k]) + Len(stopWords[k]))

isLetter(c) == includes(LowerLetters, c) \/ includes(UpperLetters, c)

\* s begins with the word w: w, in any case, and then no further letter
beginsWithWord(s, w) ==
    /\ startsWith(toLowerCase(s), w)
    /\ Len(s) = Len(w) \/ ~isLetter(charAt(s, Len(w) + 1))

\* s without one leading comma or semicolon
withoutSeparator(s) ==
    IF s # "" /\ includes(",;", charAt(s, 1)) THEN stripLeading(substring(s, 1), " ") ELSE s

\* s without one leading connective word
withoutConnective(s) ==
    LET hits == {k \in 1..Len(connectives) : beginsWithWord(s, connectives[k])}
    IN  IF hits = {} THEN s
        ELSE LET k == CHOOSE h \in hits : \A g \in hits : h <= g
             IN  stripLeading(substring(s, Len(connectives[k])), " ")

(***************************************************************************)
(* C29.  extractInstructionAfterStop returns the text after the chosen stop *)
(* word, trimmed, without one leading comma or semicolon and then without   *)
(* one leading connective word ("and", "then", "now"), when that remainder  *)
(* is longer than 3 characters; it returns null otherwise, and when the     *)
(* text has no stop word.                                                    *)
(***************************************************************************)
C29_InstructionWithoutSeparatorAndConnective ==
    returned # None =>
        LET stopWordEnd == findStopWord(toLowerCase(argument), 1, -1, 0)[1]
            remainder == withoutConnective(withoutSeparator(trim(substring(argument, stopWordEnd))))
        IN  returned[1] = IF containsStopWords(argument) /\ Len(remainder) > 3
                          THEN Some(remainder)
                          ELSE None

(***************************************************************************)
(* Calls of detectAudioActivity(audioBuffer, threshold).  The segments are  *)
(* patterns of up to MaxSamples samples, repeated to lengths below, at and  *)
(* above 1000 bytes.                                                         *)
(***************************************************************************)
Amplitudes == {-3000, -201, 0, 200, 1000}

Repeats == {1, 249, 250, 16000}

Thresholds == {0, 200, 500}

ActivityArguments ==
    { [ audioBuffer |-> [samples |-> samples, repeat |-> repeat], threshold |-> threshold ] :
        samples \in UNION {[1..n -> Amplitudes] : n \in 1..MaxSamples},
        repeat \in Repeats,
        threshold \in Thresholds }

InitActivity ==
    /\ InitAssistant
    /\ InitCapture
    /\ argument \in ActivityArguments
    /\ returned = None
    /\ stt = None

DetectAudioActivity ==
    /\ returned = None
    /\ returned' = Some(detectAudioActivity(argument.audioBuffer, argument.threshold))
    /\ UNCHANGED <<argument, stt, assistantVars, captureVars>>

SpecActivity == InitActivity /\ [][DetectAudioActivity]_vars

(***************************************************************************)
(* C30.  detectAudioActivity(segment, threshold) is true exactly when the   *)
(* RMS of all the samples of the segment is above threshold, i.e. the sum   *)
(* of their squares exceeds threshold^2 times their number, for segments of *)
(* every length.                                                             *)
(***************************************************************************)
C30_ActivityIsRmsAboveThreshold ==
    returned # None =>
        \* the segment is its pattern `repeat` times: the sum of the squares and
        \* the number of samples are those of the pattern, both times `repeat`
        LET samples == argument.audioBuffer.samples
        IN  returned[1] =
                (sumSquares(samples) > argument.threshold * argument.threshold * Len(samples))

(***************************************************************************)
(* Calls of isSilent(audioBuffer, silenceThreshold).  The segments are      *)
(* patterns of up to MaxPattern samples at, just below and above the        *)
(* thresholds.                                                               *)
(***************************************************************************)
SilenceAmplitudes == {0, 99, -100, 300}

SilenceThresholds == {0, 100, 200}

SilenceArguments ==
    { [ audioBuffer |-> [samples |-> samples, repeat |-> 6400], threshold |-> threshold ] :
        samples \in UNION {[1..n -> SilenceAmplitudes] : n \in 1..MaxPattern},
        threshold \in SilenceThresholds }

InitSilent ==
    /\ InitAssistant
    /\ InitCapture
    /\ argument \in SilenceArguments
    /\ returned = None
    /\ stt = None

IsSilent ==
    /\ returned = None
    /\ returned' = Some(isSilent(argument.audioBuffer, argument.threshold))
    /\ UNCHANGED <<argument, stt, assistantVars, captureVars>>

SpecSilent == InitSilent /\ [][IsSilent]_vars

\* the samples of the argument's pattern that are strictly below the threshold
\* in absolute value
quietSamples ==
    {i \in DOMAIN argument.audioBuffer.samples :
        /\ argument.audioBuffer.samples[i] < argument.threshold
        /\ -argument.audioBuffer.samples[i] < argument.threshold}

(***************************************************************************)
(* C31.  isSilent(segment, threshold) is true exactly when strictly more    *)
(* than 80% of the samples are strictly below threshold in absolute value;  *)
(* a segment with exactly 80% of its samples below threshold is not silent. *)
(***************************************************************************)
C31_SilentAboveEightyPercent ==
    returned # None =>
        LET n == Len(argument.audioBuffer.samples)
            quiet == Cardinality(quietSamples)
        IN  /\ returned[1] = (100 * quiet > 80 * n)
            /\ (100 * quiet = 80 * n) => returned[1] = FALSE

\* a segment with exactly 80% of its samples below the threshold was found
\* not silent
C31_ExactlyEightyPercent ==
    /\ returned = Some(FALSE)
    /\ Len(argument.audioBuffer.samples) = 5
    /\ Cardinality(quietSamples) = 4

(***************************************************************************)
(* Calls of transcribeBufferSafe(audioBuffer) (stream-stt.js).  stt is the  *)
(* transcribeBuffer call it awaits: the state of its promise, the step it   *)
(* has reached, its whisper process and its 10 s timer.                      *)
(***************************************************************************)
sttOptions == [sampleRate |-> 16000, channels |-> 1]

\* sampleRate * channels * 0.5 * 2
minSamples == sttOptions.sampleRate * sttOptions.channels

RECURSIVE sumAbs(_)
sumAbs(samples) ==
    IF samples = <<>> THEN 0 ELSE abs(Head(samples)) + sumAbs(Tail(samples))

\* the tests of transcribeBufferSafe before it calls transcribeBuffer
tooShortOrQuiet(audioBuffer) ==
    \/ byteLength(audioBuffer) < minSamples
    \/ sumAbs(audioBuffer.samples) < 100 * Len(audioBuffer.samples)

TranscribeBuffers == {a.audioBuffer : a \in ActivityArguments}

\* what whisper can have printed or written
WhisperTexts == {"", "hey max"}

InitTranscribe ==
    /\ InitAssistant
    /\ InitCapture
    /\ argument \in TranscribeBuffers
    /\ returned = None
    /\ stt = None

\* transcribeBufferSafe(audioBuffer) up to `await this.transcribeBuffer`
CallTranscribe ==
    /\ returned = None
    /\ stt = None
    /\ IF tooShortOrQuiet(argument)
       THEN returned' = Some("") /\ UNCHANGED stt
       ELSE /\ stt' = [promise |-> "pending", step |-> "import", whisper |-> "none",
                       timer |-> FALSE]
            /\ UNCHANGED returned
    /\ UNCHANGED <<argument, assistantVars, captureVars>>

\* the callback of import('fs').then: the directory, the file, spawn, the
\* handlers and the timer; `thrown` when mkdirSync, writeFileSync or spawn throws
ImportSettles(thrown) ==
    /\ stt # None
    /\ stt.step = "import"
    /\ stt' = IF thrown
              THEN [stt EXCEPT !.step = "thrown"]
              ELSE [stt EXCEPT !.step = "spawned", !.whisper = "running", !.timer = TRUE]
    /\ UNCHANGED <<argument, returned, assistantVars, captureVars>>

\* whisper.on('close', code): a killed or failed process closes with a code
\* other than 0; txtFile is the text of the .txt file when there is one
WhisperClose(ok, txtFile, output) ==
    /\ stt # None
    /\ stt.whisper \in {"running", "killed", "errored"}
    /\ stt.whisper # "running" => ~ok
    /\ \E s \in {[stt EXCEPT !.whisper = "closed"]} :
          IF stt.promise = "pending"
          THEN /\ stt' = [s EXCEPT !.promise = "settled"]
               /\ returned' = IF txtFile # None THEN Some(txtFile[1])
                              ELSE IF ok THEN Some(output)
                              ELSE Some("")
          ELSE stt' = s /\ UNCHANGED returned
    /\ UNCHANGED <<argument, assistantVars, captureVars>>

\* whisper.on('error'): the process could not be started
WhisperError ==
    /\ stt # None
    /\ stt.whisper = "running"
    /\ IF stt.promise = "pending"
       THEN /\ stt' = [stt EXCEPT !.whisper = "errored", !.promise = "settled"]
            /\ returned' = Some("")
       ELSE stt' = [stt EXCEPT !.whisper = "errored"] /\ UNCHANGED returned
    /\ UNCHANGED <<argument, assistantVars, captureVars>>

\* the 10 s timer fires: whisper.killed is false, kill() and reject
WhisperTimeout ==
    /\ stt # None
    /\ stt.timer
    /\ \E s \in {[stt EXCEPT !.timer = FALSE,
                             !.whisper = IF @ = "running" THEN "killed" ELSE @]} :
          IF stt.promise = "pending"
          THEN stt' = [s EXCEPT !.promise = "settled"] /\ returned' = Some("")
          ELSE stt' = s /\ UNCHANGED returned
    /\ UNCHANGED <<argument, assistantVars, captureVars>>

NextTranscribe ==
    \/ CallTranscribe
    \/ \E thrown \in BOOLEAN : ImportSettles(thrown)
    \/ \E ok \in BOOLEAN, txtFile \in {None} \cup {Some(t) : t \in WhisperTexts},
          output \in WhisperTexts : WhisperClose(ok, txtFile, output)
    \/ WhisperError
    \/ WhisperTimeout

SpecTranscribe == InitTranscribe /\ [][NextTranscribe]_vars

\* the call is made, promise callbacks run, the timer fires, and a process
\* that was killed or could not start closes
SpecTranscribeFair ==
    /\ SpecTranscribe
    /\ WF_vars(CallTranscribe)
    /\ WF_vars(\E thrown \in BOOLEAN : ImportSettles(thrown))
    /\ WF_vars(WhisperTimeout)

(***************************************************************************)
(* C32.  Every call of transcribeBufferSafe eventually settles, with a text *)
(* or with the empty string, whatever step of the call fails; a whisper     *)
(* process still running when the 10 s timer fires is killed and the call   *)
(* returns the empty string.                                                 *)
(***************************************************************************)
C32_TranscriptionSettles ==
    /\ <>(returned # None)
    /\ [][ (stt # None /\ stt.timer /\ stt.whisper = "running" /\ WhisperTimeout)
              => (stt'.whisper = "killed" /\ returned' = Some("")) ]_vars

(***************************************************************************)
(* C33.  The busy flags and the handle tell the truth: while a              *)
(* sendToLMStudio call started by processConversation is in flight,         *)
(* isProcessingLLM is true and currentLLMProcess is that call's             *)
(* AbortController; while a reply's speak call is in flight, isSpeaking is  *)
(* true.                                                                     *)
(***************************************************************************)
C33_BusyFlagsTrackOperations ==
    \A t \in DOMAIN tasks :
        /\ tasks[t].pc = "think" => (isProcessingLLM /\ currentLLMProcess = t)
        /\ tasks[t].pc = "speakReply" => isSpeaking

\* the capture processes that are alive: spawned, not killed, not failed
alive == {p \in DOMAIN ffmpeg : ffmpeg[p] = "running"}

(***************************************************************************)
(* C34.  At any time at most one capture process is alive and feeding       *)
(* handleAudioChunk, and every capture process that is alive is the one     *)
(* ffmpegProcess refers to, under any interleaving of 'error' and 'close'   *)
(* events, restarts and their retries.                                       *)
(***************************************************************************)
C34_OneCaptureProcess ==
    /\ Cardinality(alive) <= 1
    /\ \A p \in alive : audioStreamer.ffmpegProcess = p

\* the capture processes that stopStreaming() killed and whose close event
\* arrives in this step
stoppedAndClosing == {p \in DOMAIN ffmpeg : ffmpeg[p] = "killed" /\ p \notin DOMAIN ffmpeg'}

(***************************************************************************)
(* C35.  A capture process terminated by stopStreaming() is not reported as *)
(* a failure of the source: its end causes no 'error' event, hence no       *)
(* restartStreaming.                                                         *)
(***************************************************************************)
C35_StopIsNotAFailure ==
    [][ stoppedAndClosing # {} => restarts' = restarts ]_vars

(***************************************************************************)
(* C36.  A turn never writes to conversationHistory after its session has   *)
(* ended: conversationHistory is empty in every state in which the          *)
(* assistant is idle, and entries are added only while conversing.          *)
(***************************************************************************)
C36_HistoryEmptyWhenIdle ==
    /\ [](~isInConversation => conversationHistory = <<>>)
    /\ [][ Len(conversationHistory') > Len(conversationHistory) => isInConversation ]_vars

\* what an assistant entry can hold: the replies sendToLMStudioWithInterruption
\* resolves with
Replies == {llmResponse(outcome)[1] : outcome \in {o \in LLMOutcomes : llmResponse(o) # None}}

startedWhileStreaming ==
    {r \in DOMAIN restarts :
        /\ restarts[r] = "wait1s"
        /\ audioStreamer.isStreaming
        /\ r \in DOMAIN restarts' => restarts'[r] # "wait1s"}

(***************************************************************************)
(* C38.  startStreaming() called while the stream is active fails with      *)
(* 'Already streaming' and changes nothing: the running capture process,    *)
(* isStreaming and the retained buffer are left as they were.               *)
(***************************************************************************)
C38_AlreadyStreamingChangesNothing ==
    [][\A r \in startedWhileStreaming :
          /\ r \in DOMAIN restarts'
          /\ restarts'[r] = "retry5s"
          /\ audioStreamer' = audioStreamer
          /\ ffmpeg' = ffmpeg
          /\ emitted' = emitted]_vars

\* a restart whose startStreaming() failed with 'Already streaming' beside
\* the running stream (the one fault is the end of the first process, so no
\* device lookup has failed)
C38_RejectedBesideRunningStream ==
    /\ faults = 1
    /\ \E r \in DOMAIN restarts : restarts[r] = "retry5s"
    /\ audioStreamer.isStreaming
    /\ audioStreamer.ffmpegProcess \in DOMAIN ffmpeg
    /\ ffmpeg[audioStreamer.ffmpegProcess] = "running"

\* ---- getUserConfirmation (system-processor.js) ----

maxAttempts == 3

\* the phrases of the two tests of getUserConfirmation, in their order
affirmativePhrases == <<"yes", "confirm", "proceed", "do it", "go ahead", "okay">>
negativePhrases == <<"no", "cancel", "abort", "stop", "don't", "never mind">>

containsPhrase(lowerResponse, phrases) ==
    \E i \in DOMAIN phrases : includes(lowerResponse, phrases[i])

\* the while loop of getUserConfirmation from the iteration with the given
\* count of attempts.  heard[k] is what the k-th `await recordChunk(...)`,
\* `await transcribe(filePath)` gave: Some(text), or None when one of them
\* rejected (the catch returns false)
RECURSIVE confirmationLoop(_, _)
confirmationLoop(heard, attempts) ==
    IF ~(attempts < maxAttempts) THEN FALSE
    ELSE LET outcome == heard[attempts + 1]
         IN  IF outcome = None THEN FALSE
             ELSE LET response == outcome[1]
                      lowerResponse == toLowerCase(response)
                  IN  IF trim(response) # ""
                      THEN IF containsPhrase(lowerResponse, affirmativePhrases) THEN TRUE
                           ELSE IF containsPhrase(lowerResponse, negativePhrases) THEN FALSE
                           ELSE confirmationLoop(heard, attempts + 1)
                      ELSE confirmationLoop(heard, attempts + 1)

\* getUserConfirmation(action): `spoken` is whether `await speak(...)` resolved
getUserConfirmation(spoken, heard) ==
    IF ~spoken THEN FALSE ELSE confirmationLoop(heard, 0)

\* what the user may be heard to say
ConfirmationTexts ==
    {"", " ", "Yes", "no", "maybe", "go ahead", "never mind", "don't do it"}

ConfirmationArguments ==
    [ spoken : BOOLEAN,
      heard  : [1..maxAttempts -> {None} \cup {Some(text) : text \in ConfirmationTexts}] ]

InitConfirmation ==
    /\ InitAssistant
    /\ InitCapture
    /\ argument \in ConfirmationArguments
    /\ returned = None
    /\ stt = None

GetUserConfirmation ==
    /\ returned = None
    /\ returned' = Some(getUserConfirmation(argument.spoken, argument.heard))
    /\ UNCHANGED <<argument, stt, assistantVars, captureVars>>

SpecConfirmation == InitConfirmation /\ [][GetUserConfirmation]_vars

\* the responses the call listened to: those up to the first one that decided
\* it or failed
listenedTo ==
    {k \in 1..maxAttempts :
        \A j \in 1..(k - 1) :
            /\ argument.heard[j] # None
            /\ ~containsPhrase(toLowerCase(argument.heard[j][1]), affirmativePhrases)
            /\ ~containsPhrase(toLowerCase(argument.heard[j][1]), negativePhrases)}

(***************************************************************************)
(* C39.  getUserConfirmation ends with a decision and defaults to denial:   *)
(* it returns false when a response it listened to contains a negative      *)
(* phrase, after three empty or unclear responses, and on any error; it     *)
(* returns true only for a response that contains an affirmative phrase.    *)
(***************************************************************************)
C39_ConfirmationDefaultsToDenial ==
    returned # None =>
        /\ returned[1] \in BOOLEAN
        /\ (\/ ~argument.spoken
            \/ \E k \in listenedTo :
                  \/ argument.heard[k] = None
                  \/ containsPhrase(toLowerCase(argument.heard[k][1]), negativePhrases))
              => returned[1] = FALSE
        /\ (argument.spoken /\ listenedTo = 1..maxAttempts
               /\ \A k \in 1..maxAttempts :
                     /\ argument.heard[k] # None
                     /\ ~containsPhrase(toLowerCase(argument.heard[k][1]), affirmativePhrases))
              => returned[1] = FALSE
        /\ returned[1] = TRUE =>
              \E k \in listenedTo :
                  /\ argument.heard[k] # None
                  /\ containsPhrase(toLowerCase(argument.heard[k][1]), affirmativePhrases)

====
